---- MODULE Spec2Model ----
(***************************************************************************)
(* Model of the analytics + paper-execution pipeline of node_ui/server.js: *)
(* the mtime-cached snapshot loader, the config-keyed derived cache, the   *)
(* derived-row engine with its per-(config, symbol) signal state, the      *)
(* paper trading engine (entry filter, open, manage, close), the charge    *)
(* accounting and the broker-limits governor.                              *)
(*                                                                         *)
(* Units.  Prices are integers in units of 0.0001 currency (the risk floor *)
(* epsilon of the engine), so the session close 100.00 is 1000000 and the  *)
(* micro points of that close are 2611.  Times are whole seconds of the    *)
(* IST wall clock counted from an IST midnight.  Ratios the code keeps as  *)
(* doubles (rr_to_bu5, volume_accel, near_pct) are exact rationals.        *)
(***************************************************************************)
EXTENDS Integers, Sequences, FiniteSets, TLC

(***************************************************************************)
(* Bounds of the exploration.                                              *)
(***************************************************************************)
MaxVersion == 3
MaxTicks == 2

(***************************************************************************)
(* Program constants: the defaults of the environment variables, except    *)
(* for the broker limits, which the modelled deployment sets to            *)
(* MAX_ORDERS_PER_DAY=3 and MAX_OPEN_POSITIONS=3 (defaults 2000 and 100) so *)
(* that the 50% and 20% thresholds of the governor are within a few orders, *)
(* and for JACKPOT_MIN_CONFIRMATION=2 (default 3): with the default a row   *)
(* that has the confirmation has rr_to_bu5 <= 1 < JACKPOT_MIN_RR, and the   *)
(* BE5 reversal is never flagged.                                          *)
(***************************************************************************)
NULL == 0 - 1
NO_MTIME == -1
PAPER_TF == "5m"
PAPER_FACTOR == "smart"
PAPER_FACTOR_MCX == "mini"
PAPER_COOLDOWN_SEC == 30
MIN_CONFIRMATION == 2
MIN_RR == [n |-> 1, d |-> 2]
JACKPOT_ONLY == FALSE
JACKPOT_TOUCH_LOOKBACK_SEC == 1800
JACKPOT_MIN_CONFIRMATION == 2
JACKPOT_MIN_RR == [n |-> 22, d |-> 10]
MIN_VOLUME_ACCEL == [n |-> 115, d |-> 100]
MIN_PROBABILITY_SCORE == 35
MCX_EVENING_MIN_PROBABILITY == 25
MCX_EVENING_HOUR == 17
MAX_SPIKE_POINTS_MULT == [n |-> 25, d |-> 10]
MAX_ORDERS_PER_DAY == 3
MAX_OPEN_POSITIONS == 3
OPTION_LOT_SIZE == 50
IST_OFFSET_SEC == 19800
DAY_SEC == 86400

\* FACTORS, in parts per million of the close
FACTORS == [micro |-> 2611, mini |-> 26100, mega |-> 261100]

TF_CLOSE_FIELD ==
  ("1m" :> "first_1m_close") @@ ("5m" :> "first_5m_close") @@ ("15m" :> "first_15m_close")

\* MARKET_CLOSE, as seconds of the IST day
MARKET_CLOSE ==
  [NSE |-> 15 * 3600 + 28 * 60 + 30,
   BSE |-> 15 * 3600 + 28 * 60 + 30,
   NFO |-> 15 * 3600 + 28 * 60 + 30,
   BFO |-> 15 * 3600 + 28 * 60 + 30,
   MCX |-> 23 * 3600 + 30 * 60 + 0]

(***************************************************************************)
(* Arithmetic helpers.                                                     *)
(***************************************************************************)
Abs(x) == IF x < 0 THEN 0 - x ELSE x
Max(a, b) == IF a >= b THEN a ELSE b
Min(a, b) == IF a <= b THEN a ELSE b

RECURSIVE GCD(_, _)
GCD(a, b) == IF b = 0 THEN a ELSE GCD(b, a % b)

\* an exact ratio n/d (d > 0) in lowest terms, standing for a double
Rat(n, d) ==
  LET g == GCD(Abs(n), d)
  IN  IF g = 0 THEN [n |-> 0, d |-> 1] ELSE [n |-> n \div g, d |-> d \div g]

RatGeq(a, b) == a.n * b.d >= b.n * a.d
RatLess(a, b) == a.n * b.d < b.n * a.d

(***************************************************************************)
(* Clock.  now is the IST wall clock in seconds; Date.now() and isoNow()   *)
(* both read it.  The UTC calendar day is what toISOString() yields.       *)
(***************************************************************************)
ISTSecondsOfDay(t) == t % DAY_SEC
ISTHour(t) == (t % DAY_SEC) \div 3600
ISTDay(t) == t \div DAY_SEC
UTCDay(t) == (t - IST_OFFSET_SEC) \div DAY_SEC

toNum(v) == IF v = NULL THEN NULL ELSE v

toMs(v) == IF v = NULL THEN NULL ELSE v

cfgKey(timeframe, factorName) == <<timeframe, factorName>>

(***************************************************************************)
(* Instruments of the tracked universe: symbol EXCHANGE|TOKEN with its     *)
(* exchange and tradingsymbol.  StrRank is the string order the sort uses. *)
(***************************************************************************)
Instruments ==
  { [symbol |-> "MCX|1001", tsym |-> "GOLDM", exchange |-> "MCX"],
    [symbol |-> "NSE|2002", tsym |-> "INFY", exchange |-> "NSE"],
    [symbol |-> "NSE|3003", tsym |-> "TCS", exchange |-> "NSE"],
    [symbol |-> "NFO|4004", tsym |-> "NIFTY24DEC24000CE", exchange |-> "NFO"],
    [symbol |-> "NFO|5005", tsym |-> "RELIANCE24DECFUT", exchange |-> "NFO"],
    [symbol |-> "NSE|26000", tsym |-> "NIFTY", exchange |-> "NSE"],
    [symbol |-> "CDS|6006", tsym |-> "USDINR24DECFUT", exchange |-> "CDS"],
    [symbol |-> "CDS|7007", tsym |-> "USDINR24DEC84CE", exchange |-> "CDS"] }

Symbols == { i.symbol : i \in Instruments }

StrRank ==
  ("" :> 0) @@ ("CDS|6006" :> 1) @@ ("CDS|7007" :> 2) @@ ("GOLDM" :> 3) @@ ("INFY" :> 4)
  @@ ("MCX|1001" :> 5) @@ ("NFO|4004" :> 6) @@ ("NFO|5005" :> 7) @@ ("NIFTY" :> 8)
  @@ ("NIFTY24DEC24000CE" :> 9) @@ ("NSE|2002" :> 10) @@ ("NSE|26000" :> 11)
  @@ ("NSE|3003" :> 12) @@ ("RELIANCE24DECFUT" :> 13) @@ ("TCS" :> 14)
  @@ ("USDINR24DEC84CE" :> 15) @@ ("USDINR24DECFUT" :> 16)

StrLess(a, b) == StrRank[a] < StrRank[b]

\* the tradingsymbols that match /^(NIFTY|BANKNIFTY|FINNIFTY|SENSEX)$/, those
\* that match /(CE|PE)$/ and those that match /FUT/
IndexTsyms == {"NIFTY", "BANKNIFTY", "FINNIFTY", "SENSEX"}
OptionSuffixTsyms == {"NIFTY24DEC24000CE", "NIFTY24DEC24000PE", "USDINR24DEC84CE"}
FutureTsyms == {"NIFTY24DECFUT", "RELIANCE24DECFUT", "USDINR24DECFUT"}

\* selectSmartFactor: movePct > k, with movePct = |(ltp - close) / close| * 100
MovePctGt(ltp, close, k) ==
  IF close = 0 THEN ltp # close
  ELSE Abs(ltp - close) * 100 > k * Abs(close)

\* a selector whose thresholds are not strict
selectSmartFactorInclusive(ltp, close, exchange, tsym) ==
  LET AtLeast(k) == Abs(ltp - close) * 100 >= k * Abs(close)
  IN  IF exchange = "MCX" THEN [factorName |-> "mini", reason |-> "mcx_commodity"]
      ELSE IF tsym \in IndexTsyms THEN [factorName |-> "micro", reason |-> "index"]
      ELSE IF exchange = "NFO" \/ exchange = "BFO" \/ tsym \in OptionSuffixTsyms THEN
             IF AtLeast(10)
               THEN [factorName |-> "mega", reason |-> "extreme_volatility_option"]
             ELSE IF AtLeast(5)
               THEN [factorName |-> "mini", reason |-> "high_volatility_option"]
             ELSE [factorName |-> "micro", reason |-> "standard_option"]
      ELSE IF tsym \in FutureTsyms THEN
             IF AtLeast(3) THEN [factorName |-> "mini", reason |-> "volatile_future"]
             ELSE [factorName |-> "micro", reason |-> "standard_future"]
      ELSE IF AtLeast(8)
             THEN [factorName |-> "mega", reason |-> "extreme_volatility_equity"]
      ELSE IF AtLeast(3) THEN [factorName |-> "mini", reason |-> "volatile_equity"]
      ELSE [factorName |-> "micro", reason |-> "standard_equity"]

selectSmartFactor(ltp, close, exchange, tsym) ==
  LET isIndex == tsym \in IndexTsyms
      isOption == exchange = "NFO" \/ exchange = "BFO" \/ tsym \in OptionSuffixTsyms
      isFuture == tsym \in FutureTsyms
  IN  IF exchange = "MCX" THEN [factorName |-> "mini", reason |-> "mcx_commodity"]
      ELSE IF isIndex THEN [factorName |-> "micro", reason |-> "index"]
      ELSE IF isOption THEN
             IF MovePctGt(ltp, close, 10)
               THEN [factorName |-> "mega", reason |-> "extreme_volatility_option"]
             ELSE IF MovePctGt(ltp, close, 5)
               THEN [factorName |-> "mini", reason |-> "high_volatility_option"]
             ELSE [factorName |-> "micro", reason |-> "standard_option"]
      ELSE IF isFuture THEN
             IF MovePctGt(ltp, close, 3)
               THEN [factorName |-> "mini", reason |-> "volatile_future"]
             ELSE [factorName |-> "micro", reason |-> "standard_future"]
      ELSE IF MovePctGt(ltp, close, 8)
             THEN [factorName |-> "mega", reason |-> "extreme_volatility_equity"]
      ELSE IF MovePctGt(ltp, close, 3)
             THEN [factorName |-> "mini", reason |-> "volatile_equity"]
      ELSE [factorName |-> "micro", reason |-> "standard_equity"]

\* shouldAutoClose(exchange) at wall-clock time t
shouldAutoClose(exchange, t) ==
  IF exchange \notin DOMAIN MARKET_CLOSE THEN FALSE
  ELSE ISTSecondsOfDay(t) >= MARKET_CLOSE[exchange]

\* close * factor, in two limbs so that the product stays in range; the
\* closes of the model are multiples of 1000000, for which the product is exact
PointsOf(close, factorName) ==
  (close \div 1000000) * FACTORS[factorName]
  + (((close % 1000000) \div 1000) * FACTORS[factorName]) \div 1000

(***************************************************************************)
(* Derived-row engine: recomputeDerivedForConfig.                          *)
(***************************************************************************)
DefaultSignal ==
  [prevLtp |-> NULL, prevVolume |-> NULL, prevVolDelta |-> 0,
   be5TouchTs |-> 0, be5MinLtp |-> NULL, be5TouchVolume |-> 0]

\* the level nearest to ltp; a later level wins only when strictly nearer
RECURSIVE NearestLevel(_, _, _, _)
NearestLevel(ltp, levelPairs, i, best) ==
  IF i > Len(levelPairs) THEN best
  ELSE NearestLevel(ltp, levelPairs, i + 1,
         IF Abs(ltp - levelPairs[i].value) < Abs(ltp - best.value)
           THEN levelPairs[i] ELSE best)

\* Math.round of 45*min(5,c)/5 + 35*min(5,rr)/5 + 15*min(3,va)/3 + (touched ? 5 : 0),
\* clamped to [0, 100]; rr and va are exact ratios
ProbabilityScore(confirmation, rr, va, touched) ==
  LET whole == 9 * Min(5, Max(0, confirmation)) + (IF touched THEN 5 ELSE 0)
      aNum == IF rr.n >= 5 * rr.d THEN 35 * rr.d ELSE 7 * Max(0, rr.n)
      bNum == IF va.n >= 3 * va.d THEN 15 * va.d ELSE 5 * Max(0, va.n)
      aInt == aNum \div rr.d
      aRem == aNum % rr.d
      bInt == (2 * bNum + va.d) \div (2 * va.d)
      bRem == (2 * bNum + va.d) % (2 * va.d)
      carry == IF aRem * (2 * va.d) + bRem * rr.d >= 2 * va.d * rr.d THEN 1 ELSE 0
  IN  Max(0, Min(100, whole + aInt + bInt + carry))

\* a selection that computes the smart config with micro for every row
SelectedFactorWithoutSmart(row, ltp, close, factorName) ==
  IF row.exchange = "MCX" THEN [factorName |-> PAPER_FACTOR_MCX, reason |-> "mcx_auto"]
  ELSE [factorName |-> IF factorName = "smart" THEN "micro" ELSE factorName,
        reason |-> "config"]

\* a selection that gives MCX rows the configured factor
SelectedFactorWithoutMCX(row, ltp, close, factorName) ==
  IF factorName = "smart" THEN selectSmartFactor(ltp, close, row.exchange, row.tsym)
  ELSE [factorName |-> factorName, reason |-> "config"]

\* the factor the row is computed with, and why
SelectedFactor(row, ltp, close, factorName) ==
  LET useMCXFactor == row.exchange = "MCX"
  IN  IF factorName = "smart" THEN selectSmartFactor(ltp, close, row.exchange, row.tsym)
      ELSE IF useMCXFactor THEN [factorName |-> PAPER_FACTOR_MCX, reason |-> "mcx_auto"]
      ELSE [factorName |-> factorName, reason |-> "config"]

\* the ten levels around close
Levels(close, points) ==
  [points |-> points,
   bu1 |-> close + points, bu2 |-> close + points * 2, bu3 |-> close + points * 3,
   bu4 |-> close + points * 4, bu5 |-> close + points * 5,
   be1 |-> close - points, be2 |-> close - points * 2, be3 |-> close - points * 3,
   be4 |-> close - points * 4, be5 |-> close - points * 5]

\* the nearest level with its percentage distance
NearOf(ltp, lv) ==
  LET levelPairs ==
        << [name |-> "BU1", value |-> lv.bu1], [name |-> "BU2", value |-> lv.bu2],
           [name |-> "BU3", value |-> lv.bu3], [name |-> "BU4", value |-> lv.bu4],
           [name |-> "BU5", value |-> lv.bu5], [name |-> "BE1", value |-> lv.be1],
           [name |-> "BE2", value |-> lv.be2], [name |-> "BE3", value |-> lv.be3],
           [name |-> "BE4", value |-> lv.be4], [name |-> "BE5", value |-> lv.be5] >>
      WithNear(near) ==
        [name |-> near.name, value |-> near.value,
         pct |-> IF near.value = 0 THEN Rat(0, 1)
                 ELSE IF near.value > 0 THEN Rat((ltp - near.value) * 100, near.value)
                 ELSE Rat((near.value - ltp) * 100, 0 - near.value)]
  IN  WithNear(NearestLevel(ltp, levelPairs, 2, levelPairs[1]))

\* a trend that needs ltp beyond the first level, not on it
TrendOfBeyond(ltp, close, lv) ==
  LET upBreakCount == Cardinality({k \in 1..5 : ltp >= close + lv.points * k})
      downBreakCount == Cardinality({k \in 1..5 : ltp <= close - lv.points * k})
      WithTrend(trend) ==
        [trend |-> trend, up_break_count |-> upBreakCount,
         down_break_count |-> downBreakCount,
         confirmation |-> IF trend = "UP" THEN upBreakCount
                          ELSE IF trend = "DOWN" THEN downBreakCount ELSE 0]
  IN  WithTrend(IF ltp > lv.bu1 THEN "UP" ELSE IF ltp < lv.be1 THEN "DOWN" ELSE "SIDEWAYS")

\* trend and confirmation
TrendOf(ltp, close, lv) ==
  LET upBreakCount == Cardinality({k \in 1..5 : ltp >= close + lv.points * k})
      downBreakCount == Cardinality({k \in 1..5 : ltp <= close - lv.points * k})
      WithTrend(trend) ==
        [trend |-> trend, up_break_count |-> upBreakCount,
         down_break_count |-> downBreakCount,
         confirmation |-> IF trend = "UP" THEN upBreakCount
                          ELSE IF trend = "DOWN" THEN downBreakCount ELSE 0]
  IN  WithTrend(IF ltp >= lv.bu1 THEN "UP" ELSE IF ltp <= lv.be1 THEN "DOWN" ELSE "SIDEWAYS")

\* a motion measured from nothing: the stored state is not read
MotionOfStateless(ltp, volume, prev, points) ==
  [volume_delta |-> volume, volume_accel |-> Rat(IF volume > 0 THEN 1 ELSE 0, 1),
   ltp_jump |-> 0, spike_flag |-> FALSE]

\* a motion measured after the stored ltp and volume were overwritten with
\* the row's own
MotionOfAfterCommit(ltp, volume, prev, points) ==
  [volume_delta |-> 0,
   volume_accel |-> IF prev.prevVolDelta > 0 THEN Rat(0, prev.prevVolDelta) ELSE Rat(0, 1),
   ltp_jump |-> 0, spike_flag |-> FALSE]

\* volume delta and acceleration, ltp jump and spike flag against the stored state
MotionOf(ltp, volume, prev, points) ==
  LET WithDelta(volDelta, ltpJump) ==
        [volume_delta |-> volDelta,
         volume_accel |-> IF prev.prevVolDelta > 0 THEN Rat(volDelta, prev.prevVolDelta)
                          ELSE IF volDelta > 0 THEN Rat(1, 1) ELSE Rat(0, 1),
         ltp_jump |-> ltpJump,
         spike_flag |-> IF points > 0
                          THEN ltpJump * MAX_SPIKE_POINTS_MULT.d
                                 > points * MAX_SPIKE_POINTS_MULT.n
                          ELSE FALSE]
  IN  WithDelta(IF prev.prevVolume = NULL THEN 0 ELSE Max(0, volume - prev.prevVolume),
                IF prev.prevLtp = NULL THEN 0 ELSE Abs(ltp - prev.prevLtp))

\* a touch state that is never forgotten
TouchOfKeepingStale(ltp, volume, prev, be5, rowTsMs) ==
  LET WithAge(touched, age) ==
        [recent |-> (age # NULL /\ age <= JACKPOT_TOUCH_LOOKBACK_SEC),
         age |-> age, kept |-> touched]
      WithTouched(touched) ==
        WithAge(touched,
                IF touched.be5TouchTs # 0 THEN Max(0, rowTsMs - touched.be5TouchTs)
                ELSE NULL)
  IN  WithTouched(IF ltp <= be5
                    THEN [prev EXCEPT !.be5TouchTs = rowTsMs,
                                      !.be5MinLtp = IF prev.be5MinLtp = NULL THEN ltp
                                                    ELSE Min(prev.be5MinLtp, ltp),
                                      !.be5TouchVolume = volume]
                    ELSE prev)

\* the BE5 touch state after this row: recorded on a touch, forgotten when stale
TouchOf(ltp, volume, prev, be5, rowTsMs) ==
  LET WithAge(touched, age) ==
        [recent |-> (age # NULL /\ age <= JACKPOT_TOUCH_LOOKBACK_SEC),
         age |-> age,
         kept |-> IF age # NULL /\ age <= JACKPOT_TOUCH_LOOKBACK_SEC THEN touched
                  ELSE [touched EXCEPT !.be5TouchTs = 0, !.be5MinLtp = NULL,
                                       !.be5TouchVolume = 0]]
      WithTouched(touched) ==
        WithAge(touched,
                IF touched.be5TouchTs # 0 THEN Max(0, rowTsMs - touched.be5TouchTs)
                ELSE NULL)
  IN  WithTouched(IF ltp <= be5
                    THEN [prev EXCEPT !.be5TouchTs = rowTsMs,
                                      !.be5MinLtp = IF prev.be5MinLtp = NULL THEN ltp
                                                    ELSE Min(prev.be5MinLtp, ltp),
                                      !.be5TouchVolume = volume]
                    ELSE prev)

\* one iteration of the loop body for a row that passed the numeric guard
DeriveRow(row, ltp, close, prev, factorName, nowMs) ==
  LET volume == IF toNum(row.volume) = NULL THEN 0 ELSE Max(0, toNum(row.volume))
      rowTsMs == IF toMs(row.updated_at) = NULL \/ toMs(row.updated_at) = 0
                   THEN nowMs ELSE toMs(row.updated_at)
      Emit(sel, lv, near, tr, mo, touch, rrToBu5, jackpotBe5Reversal, probabilityScore) ==
        [enriched |->
           [close |-> close, points |-> lv.points,
            selected_factor |-> sel.factorName, factor_reason |-> sel.reason,
            bu1 |-> lv.bu1, bu2 |-> lv.bu2, bu3 |-> lv.bu3, bu4 |-> lv.bu4,
            bu5 |-> lv.bu5, be1 |-> lv.be1, be2 |-> lv.be2, be3 |-> lv.be3,
            be4 |-> lv.be4, be5 |-> lv.be5,
            near_name |-> near.name, near_value |-> near.value,
            near_diff |-> ltp - near.value, near_pct |-> near.pct,
            in_range_up |-> (ltp >= lv.bu1 /\ ltp <= lv.bu5),
            in_range_down |-> (ltp <= lv.be1 /\ ltp >= lv.be5),
            in_range |-> ((ltp >= lv.bu1 /\ ltp <= lv.bu5) \/ (ltp <= lv.be1 /\ ltp >= lv.be5)),
            sideways |-> (ltp > lv.be1 /\ ltp < lv.bu1),
            trend |-> tr.trend, confirmation |-> tr.confirmation,
            up_break_count |-> tr.up_break_count,
            down_break_count |-> tr.down_break_count,
            rr_to_bu5 |-> rrToBu5,
            volume_delta |-> mo.volume_delta, volume_accel |-> mo.volume_accel,
            be5_touched_recent |-> touch.recent,
            be5_touch_age_sec |-> (IF touch.recent THEN touch.age ELSE NULL),
            be5_low_ltp |-> touch.kept.be5MinLtp,
            jackpot_long |-> jackpotBe5Reversal,
            jackpot_retest |->
              (tr.trend = "UP" /\ near.name = "BU1"
                 /\ Abs(near.pct.n) * 100 <= 8 * near.pct.d),
            jackpot_be5_reversal |-> jackpotBe5Reversal,
            jackpot_short |->
              (tr.trend = "DOWN" /\ near.name = "BE1"
                 /\ Abs(near.pct.n) * 100 <= 8 * near.pct.d),
            probability_score |-> probabilityScore,
            ltp_jump |-> mo.ltp_jump, spike_flag |-> mo.spike_flag,
            above_bu1 |-> (ltp >= lv.bu1), below_be1 |-> (ltp <= lv.be1),
            above_bu5 |-> (ltp > lv.bu5), below_be5 |-> (ltp < lv.be5)] @@ row,
         isTrigger |-> ((ltp >= lv.bu1 /\ ltp <= lv.bu5) /\ ~(ltp > lv.be1 /\ ltp < lv.bu1)),
         prev |-> [touch.kept EXCEPT !.prevLtp = ltp, !.prevVolume = volume,
                                     !.prevVolDelta = mo.volume_delta]]
      Judge(sel, lv, near, tr, mo, touch, rrToBu5) ==
        Emit(sel, lv, near, tr, mo, touch, rrToBu5,
             /\ touch.recent
             /\ touch.kept.be5MinLtp # NULL
             /\ touch.kept.be5MinLtp <= lv.be5
             /\ ltp >= lv.bu1
             /\ ((prev.prevLtp # NULL /\ prev.prevLtp < lv.bu1 /\ ltp >= lv.bu1)
                   \/ near.name = "BU1")
             /\ tr.confirmation >= JACKPOT_MIN_CONFIRMATION
             /\ RatGeq(rrToBu5, JACKPOT_MIN_RR)
             /\ RatGeq(mo.volume_accel, MIN_VOLUME_ACCEL),
             ProbabilityScore(tr.confirmation, rrToBu5, mo.volume_accel, touch.recent))
      Measure(sel, lv) ==
        Judge(sel, lv, NearOf(ltp, lv), TrendOf(ltp, close, lv),
              MotionOf(ltp, volume, prev, lv.points),
              TouchOf(ltp, volume, prev, lv.be5, rowTsMs),
              Rat(Max(0, lv.bu5 - ltp), Max(1, ltp - lv.bu1)))
      Select(sel) == Measure(sel, Levels(close, PointsOf(close, sel.factorName)))
  IN  Select(SelectedFactor(row, ltp, close, factorName))

\* the comparator of the final sort: ascending by symbol, then by tsym
cmpLess(a, b) ==
  \/ StrLess(a.symbol, b.symbol)
  \/ (a.symbol = b.symbol /\ StrLess(a.tsym, b.tsym))

RECURSIVE InsertSorted(_, _)
InsertSorted(sorted, r) ==
  IF sorted = << >> THEN << r >>
  ELSE IF cmpLess(r, sorted[Len(sorted)])
         THEN Append(InsertSorted(SubSeq(sorted, 1, Len(sorted) - 1), r),
                     sorted[Len(sorted)])
         ELSE Append(sorted, r)

RECURSIVE SortRows(_, _)
SortRows(rows, n) ==
  IF n = 0 THEN << >> ELSE InsertSorted(SortRows(rows, n - 1), rows[n])

\* a loop step that emits the row and stores nothing for the next run
AddDerivedWithoutState(acc, symbol, d) ==
  [cfgState |-> acc.cfgState,
   seenSymbols |-> acc.seenSymbols \cup {symbol},
   allRows |-> Append(acc.allRows, d.enriched),
   triggerRows |-> IF d.isTrigger THEN Append(acc.triggerRows, d.enriched)
                   ELSE acc.triggerRows]

\* the accumulators of the loop after the derived row d of a symbol
AddDerived(acc, symbol, d) ==
  [cfgState |-> (symbol :> d.prev) @@ acc.cfgState,
   seenSymbols |-> acc.seenSymbols \cup {symbol},
   allRows |-> Append(acc.allRows, d.enriched),
   triggerRows |-> IF d.isTrigger THEN Append(acc.triggerRows, d.enriched)
                   ELSE acc.triggerRows]

\* the loop over baseRows, threading the config's signal state
RECURSIVE RecomputeLoop(_, _, _, _, _, _)
RecomputeLoop(baseRows, i, timeframe, factorName, nowMs, acc) ==
  IF i > Len(baseRows) THEN acc
  ELSE
    LET row == baseRows[i]
        ltp == toNum(row.ltp)
        close == toNum(row[TF_CLOSE_FIELD[timeframe]])
        prev == IF row.symbol \in DOMAIN acc.cfgState
                  THEN acc.cfgState[row.symbol] ELSE DefaultSignal
    IN  RecomputeLoop(baseRows, i + 1, timeframe, factorName, nowMs,
          IF ltp = NULL \/ close = NULL \/ row.symbol = ""
            THEN acc
            ELSE AddDerived(acc, row.symbol,
                            DeriveRow(row, ltp, close, prev, factorName, nowMs)))

\* a result that keeps the signal state of the symbols the loop did not see
RecomputeResultKeepingUnseen(done) ==
  [item |-> [allRows |-> SortRows(done.allRows, Len(done.allRows)),
             triggerRows |-> SortRows(done.triggerRows, Len(done.triggerRows))],
   cfgState |-> done.cfgState]

\* a result that returns the rows in the order of the snapshot
RecomputeResultUnsorted(done) ==
  [item |-> [allRows |-> done.allRows, triggerRows |-> done.triggerRows],
   cfgState |-> [s \in (DOMAIN done.cfgState) \cap done.seenSymbols |-> done.cfgState[s]]]

\* the result of the loop: sorted rows, and the signal state without the
\* symbols the loop did not see
RecomputeResult(done) ==
  [item |-> [allRows |-> SortRows(done.allRows, Len(done.allRows)),
             triggerRows |-> SortRows(done.triggerRows, Len(done.triggerRows))],
   cfgState |-> [s \in (DOMAIN done.cfgState) \cap done.seenSymbols |-> done.cfgState[s]]]

\* recomputeDerivedForConfig: the derived rows and the config's new signal state
recomputeDerivedForConfig(baseRows, timeframe, factorName, cfgState0, nowMs) ==
  RecomputeResult(
    RecomputeLoop(baseRows, 1, timeframe, factorName, nowMs,
      [cfgState |-> cfgState0, seenSymbols |-> {},
       allRows |-> << >>, triggerRows |-> << >>]))

(***************************************************************************)
(* State.                                                                  *)
(***************************************************************************)
VARIABLES
  universe,          \* the instruments the producer tracks
  now,               \* the wall clock (IST seconds)
  ticks,             \* clock steps taken, for the exploration bound
  snapshotFile,      \* the snapshot file on disk: exists, mtimeMs, data, valid (it parses)
  snapshotCache,     \* loadSnapshot's cache: mtimeMs, data
  derivedCache,      \* snapshotMtimeMs, byConfig
  signalState,       \* signalState.byConfig: cfgKey -> symbol -> signal
  openTrades,        \* paperState.openTrades: symbol -> trade
  cooldownUntil,     \* paperState.cooldownUntil: symbol -> time
  lastSnapshotMtime, \* paperState.lastSnapshotMtime
  paper_trades,      \* table paper_trades, row id = index
  broker_limits,     \* table broker_limits: day -> record
  schema,            \* the paper database as it is: missing columns of paper_trades,
                     \* whether ALTER works, whether a write is refused (locked)
  cycle,             \* history: what the last step did, if it was a paper cycle
  reads,             \* history: derived-row reads since the loader's version changed
  priorData          \* history: the snapshot the producer wrote before the current one

vars == <<universe, now, ticks, snapshotFile, snapshotCache, derivedCache, signalState,
          openTrades, cooldownUntil, lastSnapshotMtime, paper_trades,
          broker_limits, schema, cycle, reads, priorData>>

EmptyMap == [x \in {} |-> 0]
EmptySnapshot == [day |-> NULL, rows |-> << >>]
EmptyItem == [allRows |-> << >>, triggerRows |-> << >>]
NoCycle == [op |-> "none", ran |-> FALSE, version |-> NO_MTIME, log |-> << >>]

\* the table with every column of the current schema
CurrentSchema == [missing |-> {}, alter |-> TRUE, locked |-> FALSE]

\* an exception left the operation whose log this is
Thrown(log) == Len(log) > 0 /\ log[Len(log)].ev = "error"

\* the exception left the timer callback: the process has ended
Terminated == cycle.op = "cycle" /\ Thrown(cycle.log)

PaperKey == cfgKey(PAPER_TF, PAPER_FACTOR)

(***************************************************************************)
(* Snapshot loader and config-keyed derived cache.                         *)
(***************************************************************************)
\* a loader that keeps what it has cached when the file cannot be read
loadSnapshotKeepingCache(file, cache) ==
  IF file.exists /\ file.valid /\ file.mtimeMs # cache.mtimeMs
    THEN [mtimeMs |-> file.mtimeMs, data |-> file.data]
    ELSE cache

\* loadSnapshot: the new value of snapshotCache
loadSnapshot(file, cache) ==
  IF file.exists
    THEN IF file.mtimeMs # cache.mtimeMs
           THEN IF file.valid
                  THEN [mtimeMs |-> file.mtimeMs, data |-> file.data]
                  ELSE [mtimeMs |-> NO_MTIME, data |-> EmptySnapshot]
           ELSE cache
    ELSE [mtimeMs |-> NO_MTIME, data |-> EmptySnapshot]

\* the cache and the signal state after a recomputation rec for key
CacheInsert(purged, ss, key, rec) ==
  [derivedCache |-> [purged EXCEPT !.byConfig = (key :> rec.item) @@ @],
   signalState |-> (key :> rec.cfgState) @@ ss,
   item |-> rec.item,
   computed |-> TRUE]

\* a version change that records the new version and keeps the entries
PurgedKeepingEntries(dc, snapshotMtimeMs) ==
  [dc EXCEPT !.snapshotMtimeMs = snapshotMtimeMs]

\* the derived cache, purged when the version has changed
Purged(dc, snapshotMtimeMs) ==
  IF dc.snapshotMtimeMs # snapshotMtimeMs
    THEN [snapshotMtimeMs |-> snapshotMtimeMs, byConfig |-> EmptyMap]
    ELSE dc

\* a getDerivedForConfig that recomputes on every call
getDerivedForConfigUncached(dc, ss, snapshotMtimeMs, baseRows, timeframe, factorName, nowMs) ==
  LET key == cfgKey(timeframe, factorName)
      cfgState0 == IF key \in DOMAIN ss THEN ss[key] ELSE EmptyMap
  IN  CacheInsert(Purged(dc, snapshotMtimeMs), ss, key,
                  recomputeDerivedForConfig(baseRows, timeframe, factorName, cfgState0, nowMs))

\* getDerivedForConfig: the returned item with the new cache and signal state
getDerivedForConfig(dc, ss, snapshotMtimeMs, baseRows, timeframe, factorName, nowMs) ==
  LET key == cfgKey(timeframe, factorName)
      cfgState0 == IF key \in DOMAIN ss THEN ss[key] ELSE EmptyMap
      Lookup(purged) ==
        IF key \notin DOMAIN purged.byConfig
          THEN CacheInsert(purged, ss, key,
                 recomputeDerivedForConfig(baseRows, timeframe, factorName, cfgState0, nowMs))
          ELSE [derivedCache |-> purged,
                signalState |-> ss,
                item |-> purged.byConfig[key],
                computed |-> FALSE]
  IN  Lookup(Purged(dc, snapshotMtimeMs))

(***************************************************************************)
(* Broker-limits governor.                                                 *)
(***************************************************************************)
RECURSIVE SumMargin(_, _, _)
SumMargin(trades, today, i) ==
  IF i > Len(trades) THEN 0
  ELSE (IF trades[i].status = "OPEN" /\ trades[i].day = today
          THEN trades[i].entry_ltp * trades[i].quantity ELSE 0)
       + SumMargin(trades, today, i + 1)

StatusColor(ordersRemaining, positionsRemaining) ==
  IF ordersRemaining * 5 < MAX_ORDERS_PER_DAY \/ positionsRemaining * 5 < MAX_OPEN_POSITIONS
    THEN "red"
  ELSE IF ordersRemaining * 2 < MAX_ORDERS_PER_DAY \/ positionsRemaining * 2 < MAX_OPEN_POSITIONS
    THEN "yellow"
  ELSE "green"

\* getBrokerLimitsStatus at time t: the status and the updated table
getBrokerLimitsStatus(trades, limits, t) ==
  LET today == UTCDay(t)
      record == IF today \in DOMAIN limits THEN limits[today]
                ELSE [orders_placed |-> 0, open_positions |-> 0, margin_used |-> 0]
      openPositions ==
        Cardinality({i \in 1..Len(trades) : trades[i].status = "OPEN" /\ trades[i].day = today})
      marginUsed == SumMargin(trades, today, 1)
      ordersPlaced == record.orders_placed
      ordersRemaining == Max(0, MAX_ORDERS_PER_DAY - ordersPlaced)
      positionsRemaining == Max(0, MAX_OPEN_POSITIONS - openPositions)
      statusColor == StatusColor(ordersRemaining, positionsRemaining)
  IN  [broker_limits |->
         (today :> [record EXCEPT !.open_positions = openPositions,
                                  !.margin_used = marginUsed]) @@ limits,
       status |->
         [orders_placed |-> ordersPlaced, orders_remaining |-> ordersRemaining,
          open_positions |-> openPositions, positions_remaining |-> positionsRemaining,
          margin_used |-> marginUsed, status_color |-> statusColor,
          safe_to_trade |-> (statusColor = "green"),
          warning |-> (statusColor = "yellow"),
          danger |-> (statusColor = "red")]]

\* an incrementOrderCount that writes nothing
incrementOrderCountNever(limits, t) == limits

\* incrementOrderCount: UPDATE ... WHERE day = today
incrementOrderCount(limits, t) ==
  LET today == UTCDay(t)
  IN  IF today \in DOMAIN limits
        THEN [limits EXCEPT ![today].orders_placed = @ + 1]
        ELSE limits

(***************************************************************************)
(* Charge accounting.  Amounts are in price units; toFixed(2) rounds to    *)
(* 100 units.  MulDivRound(a, m, dh) is round(a * m / (dh * 10000)),       *)
(* computed in two limbs so that the product stays in range.  The cap of   *)
(* the brokerage at 20.00 binds from a turnover of 2000000000 units on,    *)
(* which no integer of the model reaches, so gst and the total use the     *)
(* uncapped brokerage.                                                     *)
(***************************************************************************)
MulLimbs(a, m) ==
  LET lo == (a % 10000) * m
  IN  [hi |-> (a \div 10000) * m + lo \div 10000, lo |-> lo % 10000]

MulDivRound(a, m, dh) == (MulLimbs(a, m).hi + dh \div 2) \div dh

calculateBrokerageCharges(entryPrice, exitPrice, quantity, exchange) ==
  LET turnover == (entryPrice + exitPrice) * quantity
      isEquityExchange == exchange \in {"NSE", "BSE"}
      brokerage == Min(MulDivRound(turnover, 100, 10000), 2000)
      stt == IF isEquityExchange THEN MulDivRound(turnover, 250, 10000)
             ELSE MulDivRound(turnover, 100, 10000)
      exchangeCharges == MulDivRound(turnover, 325, 100000)
      sebiCharges == MulDivRound(turnover, 1, 10000)
      stampDuty == MulDivRound(entryPrice * quantity, 150, 10000)
      gst == MulDivRound(turnover, 2385, 1000000)
      totalT == MulLimbs(turnover, IF isEquityExchange THEN 40735 ELSE 25735)
      totalE == MulLimbs(entryPrice * quantity, 15000)
      totalHi == totalT.hi + totalE.hi + (totalT.lo + totalE.lo) \div 10000
  IN  [brokerage |-> 100 * brokerage,
       stt |-> 100 * stt,
       exchange_charges |-> 100 * exchangeCharges,
       sebi_charges |-> 100 * sebiCharges,
       stamp_duty |-> 100 * stampDuty,
       gst |-> 100 * gst,
       total_charges |-> 100 * ((totalHi + 500000) \div 1000000)]

(***************************************************************************)
(* Paper trading engine.  The operations thread a record st with the       *)
(* fields openTrades, cooldownUntil, paper_trades, broker_limits and log.  *)
(***************************************************************************)
\* the tradingsymbols that match /(CE|PE)/ or /[CP]\d{2,6}$/ (RELIANCE holds
\* the letters CE), and those that match one of the three future patterns
OptionLikeTsyms ==
  {"NIFTY24DEC24000CE", "NIFTY24DEC24000PE", "RELIANCE24DECFUT", "USDINR24DEC84CE"}
FutureLikeTsyms == {"NIFTY24DECFUT", "RELIANCE24DECFUT", "USDINR24DECFUT"}

\* a guard that lets every row through
tradeGuardLongRowLax(row, ltp) == [ok |-> TRUE, reason |-> "in_bu_range"]

tradeGuardLongRow(row, ltp) ==
  LET bu1 == toNum(row.bu1)
      bu5 == toNum(row.bu5)
  IN  IF ltp = NULL \/ bu1 = NULL \/ bu5 = NULL
        THEN [ok |-> FALSE, reason |-> "missing_levels"]
      ELSE IF ~(ltp >= bu1 /\ ltp <= bu5)
        THEN [ok |-> FALSE, reason |-> "outside_bu1_bu5"]
      ELSE [ok |-> TRUE, reason |-> "in_bu_range"]

detectInstrumentType(exchange, tsym) ==
  IF exchange = "MCX" THEN "COMMODITY"
  ELSE IF exchange = "NFO" \/ exchange = "BFO" THEN
         IF tsym \in OptionLikeTsyms THEN "OPTION"
         ELSE IF tsym \in FutureLikeTsyms THEN "FUTURE"
         ELSE "DERIVATIVE"
  ELSE "EQUITY"

Event(ev, symbol, info) == [ev |-> ev, symbol |-> symbol, info |-> info]

RemoveKey(f, k) == [x \in (DOMAIN f) \ {k} |-> f[x]]

(***************************************************************************)
(* The live table and the statements.  A statement that names a column the *)
(* table lacks fails when it is prepared; the text of the error is         *)
(* SQLite's, and differs between INSERT and UPDATE.                        *)
(***************************************************************************)
\* the columns migratePaperDb adds that the full INSERT names
InsertColumns ==
  {"exchange", "instrument_type", "be1", "be2", "be3", "be4", "be5", "sl_price",
   "tp_price", "tsl_trigger", "tsl_active", "tsl_sl_price", "quantity"}

\* those the INSERT with the essential columns names
EssentialInsertColumns == {"exchange", "instrument_type", "quantity"}

\* those the full UPDATE of updateOpenTrade names
UpdateColumns == {"tsl_active", "tsl_sl_price", "max_profit_points"}

\* those the full UPDATE of closeTrade names
CloseColumns ==
  {"brokerage", "stt", "exchange_charges", "sebi_charges", "stamp_duty", "gst",
   "total_charges", "net_pnl"}

MigrationColumns == InsertColumns \cup UpdateColumns \cup CloseColumns

InsertErrorText == "table paper_trades has no column named"
UpdateErrorText == "no such column"
LockedErrorText == "database is locked"

\* e.message.includes('no such column')
IncludesNoSuchColumn(message) == message = "no such column"

\* migratePaperDb: every missing column is added, unless ALTER TABLE fails,
\* which is caught and ignored
migratePaperDb(sch) == IF sch.alter THEN [sch EXCEPT !.missing = {}] ELSE sch

\* the try/catch around the UPDATE of updateOpenTrade and of closeTrade: the
\* schema afterwards and the statement that wrote the row, if any
updateWithRetry(sch, columns) ==
  IF sch.locked THEN [schema |-> sch, statement |-> "none"]
  ELSE IF sch.missing \cap columns = {} THEN [schema |-> sch, statement |-> "full"]
  ELSE IF ~IncludesNoSuchColumn(UpdateErrorText) THEN [schema |-> sch, statement |-> "none"]
  ELSE LET mig == migratePaperDb(sch)
       IN  [schema |-> mig,
            statement |-> IF mig.missing \cap columns = {} THEN "full" ELSE "basic"]

\* the try/catch around the INSERT of openTradeFromRow: the schema afterwards
\* and the statement that wrote the row, or that the error was thrown on
insertWithFallback(sch) ==
  IF sch.locked THEN [schema |-> sch, statement |-> "thrown"]
  ELSE IF sch.missing \cap InsertColumns = {} THEN [schema |-> sch, statement |-> "full"]
  ELSE IF ~IncludesNoSuchColumn(InsertErrorText) THEN [schema |-> sch, statement |-> "thrown"]
  ELSE LET mig == migratePaperDb(sch)
       IN  [schema |-> mig,
            statement |-> IF mig.missing \cap EssentialInsertColumns = {}
                            THEN "essential" ELSE "thrown"]

\* the row the INSERT with the essential columns leaves
essentialRow(dbRow) ==
  [dbRow EXCEPT !.be1 = NULL, !.be2 = NULL, !.be3 = NULL, !.be4 = NULL, !.be5 = NULL,
                !.sl_price = NULL, !.tp_price = NULL, !.tsl_trigger = NULL,
                !.tsl_sl_price = NULL]

\* the end of openTradeFromRow: the INSERT, the order count and the trade
\* object, or the exception
persistOpen(st, trade, dbRow, limits, w, t) ==
  IF w.statement = "thrown"
    THEN [ok |-> FALSE,
          st |-> [st EXCEPT
                    !.broker_limits = limits.broker_limits,
                    !.schema = w.schema,
                    !.log = Append(@, Event("error", trade.symbol, InsertErrorText))]]
    ELSE [ok |-> TRUE,
          st |-> [st EXCEPT
                    !.paper_trades =
                       Append(@, IF w.statement = "full" THEN dbRow ELSE essentialRow(dbRow)),
                    !.broker_limits = incrementOrderCount(limits.broker_limits, t),
                    !.openTrades = (trade.symbol :> trade) @@ @,
                    !.schema = w.schema,
                    !.log = Append(@, Event("open", trade.symbol,
                                            limits.status.status_color))]]

\* openTradeFromRow at time t: ok and the new st
openTradeFromRow(st, row, day, reason, t) ==
  LET ltp == toNum(row.ltp)
      guard == tradeGuardLongRow(row, ltp)
      limits == getBrokerLimitsStatus(st.paper_trades, st.broker_limits, t)
      instrumentType == detectInstrumentType(row.exchange, row.tsym)
      slPrice == row.be1
      tpPrice == row.bu5
      tslTrigger == row.bu3
      quantity == IF instrumentType = "OPTION" THEN OPTION_LOT_SIZE ELSE 1
      id == Len(st.paper_trades) + 1
      trade ==
        [id |-> id, symbol |-> row.symbol, tsym |-> row.tsym, exchange |-> row.exchange,
         day |-> day, timeframe |-> PAPER_TF, factor |-> PAPER_FACTOR,
         instrument_type |-> instrumentType,
         close_price |-> row.close, points |-> row.points,
         bu1 |-> row.bu1, bu2 |-> row.bu2, bu3 |-> row.bu3, bu4 |-> row.bu4,
         bu5 |-> row.bu5, be1 |-> row.be1, be2 |-> row.be2, be3 |-> row.be3,
         be4 |-> row.be4, be5 |-> row.be5,
         entry_ltp |-> ltp, entry_ts |-> t, exit_ltp |-> NULL, exit_ts |-> NULL,
         sl_price |-> slPrice, tp_price |-> tpPrice, tsl_trigger |-> tslTrigger,
         tsl_active |-> 0, tsl_sl_price |-> slPrice, max_profit_points |-> 0,
         status |-> "OPEN", reason |-> reason,
         last_ltp |-> ltp, max_ltp |-> ltp, min_ltp |-> ltp,
         runup |-> 0, drawdown |-> 0, pnl |-> 0, pnl_pct |-> Rat(0, 1),
         quantity |-> quantity, updated_at |-> t]
      dbRow ==
        trade @@ [brokerage |-> 0, stt |-> 0, exchange_charges |-> 0, sebi_charges |-> 0,
                  stamp_duty |-> 0, gst |-> 0, total_charges |-> 0, net_pnl |-> NULL]
  IN  IF ~guard.ok THEN [ok |-> FALSE, st |-> st]
      ELSE IF st.schema.locked
        THEN [ok |-> FALSE,
              st |-> [st EXCEPT
                        !.log = Append(@, Event("error", row.symbol, LockedErrorText))]]
      ELSE IF ~limits.status.safe_to_trade
        THEN [ok |-> FALSE,
              st |-> [st EXCEPT
                        !.broker_limits = limits.broker_limits,
                        !.log = Append(@, Event("blocked", row.symbol,
                                                limits.status.status_color))]]
      ELSE persistOpen(st, trade, dbRow, limits, insertWithFallback(st.schema), t)

\* a closing UPDATE that books the gross pnl as net_pnl
closedRowGross(row, trade, ltp, reason, t) ==
  LET quantity == IF trade.quantity = 0 THEN 1 ELSE trade.quantity
      charges == calculateBrokerageCharges(trade.entry_ltp, ltp, quantity, trade.exchange)
  IN  [row EXCEPT !.exit_ltp = ltp, !.exit_ts = t, !.status = "CLOSED",
                  !.reason = reason, !.last_ltp = ltp,
                  !.max_ltp = trade.max_ltp, !.min_ltp = trade.min_ltp,
                  !.runup = trade.runup, !.drawdown = trade.drawdown,
                  !.pnl = (ltp - trade.entry_ltp) * quantity,
                  !.brokerage = charges.brokerage, !.stt = charges.stt,
                  !.exchange_charges = charges.exchange_charges,
                  !.sebi_charges = charges.sebi_charges,
                  !.stamp_duty = charges.stamp_duty, !.gst = charges.gst,
                  !.total_charges = charges.total_charges,
                  !.net_pnl = (ltp - trade.entry_ltp) * quantity, !.updated_at = t]

\* the persisted row of a trade after closeTrade's UPDATE at time t
closedRow(row, trade, ltp, reason, t) ==
  LET quantity == IF trade.quantity = 0 THEN 1 ELSE trade.quantity
      charges == calculateBrokerageCharges(trade.entry_ltp, ltp, quantity, trade.exchange)
      pnl == (ltp - trade.entry_ltp) * quantity
      pnlPct == IF trade.entry_ltp # 0
                  THEN Rat((ltp - trade.entry_ltp) * 100, trade.entry_ltp)
                  ELSE Rat(0, 1)
      netPnl == pnl - charges.total_charges
  IN  [row EXCEPT !.exit_ltp = ltp, !.exit_ts = t, !.status = "CLOSED",
                  !.reason = reason, !.last_ltp = ltp,
                  !.max_ltp = trade.max_ltp, !.min_ltp = trade.min_ltp,
                  !.runup = trade.runup, !.drawdown = trade.drawdown,
                  !.pnl = pnl, !.pnl_pct = pnlPct,
                  !.brokerage = charges.brokerage, !.stt = charges.stt,
                  !.exchange_charges = charges.exchange_charges,
                  !.sebi_charges = charges.sebi_charges,
                  !.stamp_duty = charges.stamp_duty, !.gst = charges.gst,
                  !.total_charges = charges.total_charges,
                  !.net_pnl = netPnl, !.updated_at = t]

\* the row after closeTrade's basic UPDATE, which leaves the charges alone
closedRowBasic(row, trade, ltp, reason, t) ==
  LET full == closedRow(row, trade, ltp, reason, t)
  IN  [full EXCEPT !.brokerage = row.brokerage, !.stt = row.stt,
                   !.exchange_charges = row.exchange_charges,
                   !.sebi_charges = row.sebi_charges, !.stamp_duty = row.stamp_duty,
                   !.gst = row.gst, !.total_charges = row.total_charges,
                   !.net_pnl = row.net_pnl]

\* a closeTrade that leaves the trade in the open-trade map
closeTradeKeepingOpen(st, trade, ltp, reason, t) ==
  [st EXCEPT
     !.paper_trades[trade.id] = closedRow(@, trade, ltp, reason, t),
     !.cooldownUntil = (trade.symbol :> t + PAPER_COOLDOWN_SEC) @@ @,
     !.log = Append(@, Event("close", trade.symbol, reason))]

\* a closeTrade that starts no cooldown
closeTradeWithoutCooldown(st, trade, ltp, reason, t) ==
  [st EXCEPT
     !.paper_trades[trade.id] = closedRow(@, trade, ltp, reason, t),
     !.openTrades = RemoveKey(@, trade.symbol),
     !.log = Append(@, Event("close", trade.symbol, reason))]

\* the row after closeTrade's UPDATE, by the statement that ran
closedRowBy(statement, row, trade, ltp, reason, t) ==
  IF statement = "full" THEN closedRow(row, trade, ltp, reason, t)
  ELSE IF statement = "basic" THEN closedRowBasic(row, trade, ltp, reason, t)
  ELSE row

\* closeTrade at time t, its UPDATE having gone as w says
persistClose(st, trade, ltp, reason, t, w) ==
  [st EXCEPT
     !.paper_trades[trade.id] = closedRowBy(w.statement, @, trade, ltp, reason, t),
     !.openTrades = RemoveKey(@, trade.symbol),
     !.cooldownUntil = (trade.symbol :> t + PAPER_COOLDOWN_SEC) @@ @,
     !.schema = w.schema,
     !.log = Append(@, Event("close", trade.symbol, reason))]

\* closeTrade at time t
closeTrade(st, trade, ltp, reason, t) ==
  persistClose(st, trade, ltp, reason, t, updateWithRetry(st.schema, CloseColumns))

\* a trailing stop that re-arms at be1 on every pass at or above the trigger
trailingStopReactivating(trade, ltp) ==
  LET activate == ltp >= trade.tsl_trigger
      active1 == IF activate THEN 1 ELSE trade.tsl_active
      sl1 == IF activate THEN trade.be1 ELSE trade.tsl_sl_price
      sl2 == IF active1 # 0 /\ ltp >= trade.bu4 /\ sl1 < trade.bu1 THEN trade.bu1 ELSE sl1
      sl3 == IF active1 # 0 /\ ltp >= trade.bu5 /\ sl2 < trade.bu2 THEN trade.bu2 ELSE sl2
  IN  [tsl_active |-> active1, tsl_sl_price |-> sl3]

\* a trailing stop that activates at the trigger but has no step at bu4
trailingStopWithoutBu4(trade, ltp) ==
  LET activate == ltp >= trade.tsl_trigger /\ trade.tsl_active = 0
      active1 == IF activate THEN 1 ELSE trade.tsl_active
      sl1 == IF activate THEN trade.be1 ELSE trade.tsl_sl_price
      sl3 == IF active1 # 0 /\ ltp >= trade.bu5 /\ sl1 < trade.bu2 THEN trade.bu2 ELSE sl1
  IN  [tsl_active |-> active1, tsl_sl_price |-> sl3]

\* the trailing-stop part of updateOpenTrade: activation at the trigger, then
\* the ladder max(tsl_sl_price, bu1) at bu4 and max(tsl_sl_price, bu2) at bu5
trailingStop(trade, ltp) ==
  LET activate == ltp >= trade.tsl_trigger /\ trade.tsl_active = 0
      active1 == IF activate THEN 1 ELSE trade.tsl_active
      sl1 == IF activate THEN trade.be1 ELSE trade.tsl_sl_price
      sl2 == IF active1 # 0 /\ ltp >= trade.bu4 /\ sl1 < trade.bu1 THEN trade.bu1 ELSE sl1
      sl3 == IF active1 # 0 /\ ltp >= trade.bu5 /\ sl2 < trade.bu2 THEN trade.bu2 ELSE sl2
  IN  [tsl_active |-> active1, tsl_sl_price |-> sl3]

\* an update that moves sl_price along with the trailing stop
updatedTradeMovingSl(trade, ltp, t) ==
  LET maxLtp == Max(trade.max_ltp, ltp)
      minLtp == Min(trade.min_ltp, ltp)
      tsl == trailingStop(trade, ltp)
      quantity == IF trade.quantity = 0 THEN 1 ELSE trade.quantity
  IN  [trade EXCEPT
         !.last_ltp = ltp, !.max_ltp = maxLtp, !.min_ltp = minLtp,
         !.runup = Max(trade.runup, ltp - trade.entry_ltp),
         !.drawdown = Max(trade.drawdown, trade.entry_ltp - ltp),
         !.max_profit_points = Max(0, maxLtp - trade.entry_ltp),
         !.tsl_active = tsl.tsl_active, !.tsl_sl_price = tsl.tsl_sl_price,
         !.sl_price = tsl.tsl_sl_price,
         !.pnl = (ltp - trade.entry_ltp) * quantity,
         !.pnl_pct = IF trade.entry_ltp # 0
                       THEN Rat((ltp - trade.entry_ltp) * 100, trade.entry_ltp)
                       ELSE Rat(0, 1),
         !.updated_at = t]

\* an update that takes the current ltp for both extremes
updatedTradeForgettingExtremes(trade, ltp, t) ==
  [trade EXCEPT
     !.last_ltp = ltp, !.max_ltp = ltp, !.min_ltp = ltp,
     !.runup = ltp - trade.entry_ltp,
     !.drawdown = trade.entry_ltp - ltp,
     !.max_profit_points = Max(0, ltp - trade.entry_ltp),
     !.tsl_active = trailingStop(trade, ltp).tsl_active,
     !.tsl_sl_price = trailingStop(trade, ltp).tsl_sl_price,
     !.pnl = (ltp - trade.entry_ltp) * (IF trade.quantity = 0 THEN 1 ELSE trade.quantity),
     !.pnl_pct = IF trade.entry_ltp # 0
                   THEN Rat((ltp - trade.entry_ltp) * 100, trade.entry_ltp)
                   ELSE Rat(0, 1),
     !.updated_at = t]

\* the trade object after updateOpenTrade(trade, ltp) at time t
updatedTrade(trade, ltp, t) ==
  LET maxLtp == Max(trade.max_ltp, ltp)
      minLtp == Min(trade.min_ltp, ltp)
      tsl == trailingStop(trade, ltp)
      quantity == IF trade.quantity = 0 THEN 1 ELSE trade.quantity
  IN  [trade EXCEPT
         !.last_ltp = ltp, !.max_ltp = maxLtp, !.min_ltp = minLtp,
         !.runup = Max(trade.runup, ltp - trade.entry_ltp),
         !.drawdown = Max(trade.drawdown, trade.entry_ltp - ltp),
         !.max_profit_points = Max(0, maxLtp - trade.entry_ltp),
         !.tsl_active = tsl.tsl_active, !.tsl_sl_price = tsl.tsl_sl_price,
         !.pnl = (ltp - trade.entry_ltp) * quantity,
         !.pnl_pct = IF trade.entry_ltp # 0
                       THEN Rat((ltp - trade.entry_ltp) * 100, trade.entry_ltp)
                       ELSE Rat(0, 1),
         !.updated_at = t]

\* the row after updateOpenTrade's UPDATE, by the statement that ran
updatedRowBy(statement, row, u) ==
  IF statement = "full"
    THEN [row EXCEPT !.last_ltp = u.last_ltp, !.max_ltp = u.max_ltp,
                     !.min_ltp = u.min_ltp, !.runup = u.runup,
                     !.drawdown = u.drawdown, !.tsl_active = u.tsl_active,
                     !.tsl_sl_price = u.tsl_sl_price,
                     !.max_profit_points = u.max_profit_points,
                     !.pnl = u.pnl, !.pnl_pct = u.pnl_pct,
                     !.updated_at = u.updated_at]
  ELSE IF statement = "basic"
    THEN [row EXCEPT !.last_ltp = u.last_ltp, !.max_ltp = u.max_ltp,
                     !.min_ltp = u.min_ltp, !.runup = u.runup,
                     !.drawdown = u.drawdown,
                     !.pnl = u.pnl, !.pnl_pct = u.pnl_pct,
                     !.updated_at = u.updated_at]
  ELSE row

\* the end of updateOpenTrade: the trade object u and its UPDATE, gone as w says
persistUpdate(st, u, w) ==
  [st EXCEPT
     !.openTrades[u.symbol] = u,
     !.paper_trades[u.id] = updatedRowBy(w.statement, @, u),
     !.schema = w.schema,
     !.log = Append(@, Event("update", u.symbol, ""))]

\* updateOpenTrade at time t: the trade object and its persisted row
updateOpenTrade(st, trade, ltp, t) ==
  persistUpdate(st, updatedTrade(trade, ltp, t), updateWithRetry(st.schema, UpdateColumns))

\* rowMap.get(symbol): index of the last row of allRows with that symbol, or 0
RowIndex(allRows, symbol) ==
  LET hits == {i \in 1..Len(allRows) : allRows[i].symbol = symbol}
  IN  IF hits = {} THEN 0 ELSE CHOOSE i \in hits : \A j \in hits : j <= i

\* a management step that closes a trade without a row at the market close
manageTradeClosingUnseen(st, symbol, allRows, t) ==
  LET i == RowIndex(allRows, symbol)
  IN  IF i = 0
        THEN IF shouldAutoClose(st.openTrades[symbol].exchange, t)
               THEN closeTrade(st, st.openTrades[symbol], st.openTrades[symbol].last_ltp,
                               "market_close_auto", t)
               ELSE st
      ELSE
        LET row == allRows[i]
            ltp == toNum(row.ltp)
        IN  IF ltp = NULL THEN st
            ELSE
              LET st1 == updateOpenTrade(st, st.openTrades[symbol], ltp, t)
                  tr == st1.openTrades[symbol]
              IN  IF shouldAutoClose(tr.exchange, t)
                    THEN closeTrade(st1, tr, ltp, "market_close_auto", t)
                  ELSE IF ltp >= tr.bu5
                    THEN closeTrade(st1, tr, ltp, "target_bu5", t)
                  ELSE IF ltp < (IF tr.tsl_active # 0 THEN tr.tsl_sl_price ELSE tr.bu1)
                    THEN closeTrade(st1, tr, ltp,
                           IF tr.tsl_active # 0 THEN "trailing_sl" ELSE "sl_below_bu1", t)
                  ELSE IF row.spike_flag /\ ltp < tr.entry_ltp
                    THEN closeTrade(st1, tr, ltp, "spike_protection", t)
                  ELSE st1

\* a management step without the target rule
manageTradeWithoutTarget(st, symbol, allRows, t) ==
  LET i == RowIndex(allRows, symbol)
  IN  IF i = 0 THEN st
      ELSE
        LET row == allRows[i]
            ltp == toNum(row.ltp)
        IN  IF ltp = NULL THEN st
            ELSE
              LET st1 == updateOpenTrade(st, st.openTrades[symbol], ltp, t)
                  tr == st1.openTrades[symbol]
              IN  IF shouldAutoClose(tr.exchange, t)
                    THEN closeTrade(st1, tr, ltp, "market_close_auto", t)
                  ELSE IF ltp < (IF tr.tsl_active # 0 THEN tr.tsl_sl_price ELSE tr.bu1)
                    THEN closeTrade(st1, tr, ltp,
                           IF tr.tsl_active # 0 THEN "trailing_sl" ELSE "sl_below_bu1", t)
                  ELSE IF row.spike_flag /\ ltp < tr.entry_ltp
                    THEN closeTrade(st1, tr, ltp, "spike_protection", t)
                  ELSE st1

\* a management step whose stop rule compares with bu1 whether or not the
\* trailing stop is active
manageTradeStoppingAtBu1(st, symbol, allRows, t) ==
  LET i == RowIndex(allRows, symbol)
  IN  IF i = 0 THEN st
      ELSE
        LET row == allRows[i]
            ltp == toNum(row.ltp)
        IN  IF ltp = NULL THEN st
            ELSE
              LET st1 == updateOpenTrade(st, st.openTrades[symbol], ltp, t)
                  tr == st1.openTrades[symbol]
              IN  IF shouldAutoClose(tr.exchange, t)
                    THEN closeTrade(st1, tr, ltp, "market_close_auto", t)
                  ELSE IF ltp >= tr.bu5
                    THEN closeTrade(st1, tr, ltp, "target_bu5", t)
                  ELSE IF ltp < tr.bu1
                    THEN closeTrade(st1, tr, ltp,
                           IF tr.tsl_active # 0 THEN "trailing_sl" ELSE "sl_below_bu1", t)
                  ELSE IF row.spike_flag /\ ltp < tr.entry_ltp
                    THEN closeTrade(st1, tr, ltp, "spike_protection", t)
                  ELSE st1

\* the body of the management loop for one open trade
manageTrade(st, symbol, allRows, t) ==
  LET i == RowIndex(allRows, symbol)
  IN  IF i = 0 THEN st
      ELSE
        LET row == allRows[i]
            ltp == toNum(row.ltp)
        IN  IF ltp = NULL THEN st
            ELSE
              LET st1 == updateOpenTrade(st, st.openTrades[symbol], ltp, t)
                  tr == st1.openTrades[symbol]
              IN  IF shouldAutoClose(tr.exchange, t)
                    THEN closeTrade(st1, tr, ltp, "market_close_auto", t)
                  ELSE IF ltp >= tr.bu5
                    THEN closeTrade(st1, tr, ltp, "target_bu5", t)
                  ELSE IF ltp < (IF tr.tsl_active # 0 THEN tr.tsl_sl_price ELSE tr.bu1)
                    THEN closeTrade(st1, tr, ltp,
                           IF tr.tsl_active # 0 THEN "trailing_sl" ELSE "sl_below_bu1", t)
                  ELSE IF row.spike_flag /\ ltp < tr.entry_ltp
                    THEN closeTrade(st1, tr, ltp, "spike_protection", t)
                  ELSE st1

RECURSIVE manageLoop(_, _, _, _, _)
manageLoop(st, symbolSeq, i, allRows, t) ==
  IF i > Len(symbolSeq) THEN st
  ELSE manageLoop(manageTrade(st, symbolSeq[i], allRows, t), symbolSeq, i + 1, allRows, t)

\* the symbols of a map as a sequence (the model visits them in string order)
RECURSIVE KeySeq(_)
KeySeq(keys) ==
  IF keys = {} THEN << >>
  ELSE LET k == CHOOSE x \in keys : \A y \in keys : StrRank[x] <= StrRank[y]
       IN  << k >> \o KeySeq(keys \ {k})

\* an entry filter that does not look at the spike flag
passesEntryFilterIgnoringSpike(r, ltp, t) ==
  LET risk == Max(1, ltp - r.bu1)
      reward == Max(0, r.bu5 - ltp)
      isMCXEvening == r.exchange = "MCX" /\ ISTHour(t) >= MCX_EVENING_HOUR
      minProb == IF isMCXEvening THEN MCX_EVENING_MIN_PROBABILITY ELSE MIN_PROBABILITY_SCORE
  IN  /\ r.in_range_up
      /\ ~r.sideways
      /\ r.trend = "UP"
      /\ ~(r.confirmation < MIN_CONFIRMATION)
      /\ ~RatLess(Rat(reward, risk), MIN_RR)
      /\ ~(r.probability_score < minProb)
      /\ ~(JACKPOT_ONLY /\ ~r.jackpot_be5_reversal)
      /\ tradeGuardLongRow(r, ltp).ok
      /\ ~shouldAutoClose(r.exchange, t)

\* the row-level conditions of the entry loop, the guard included
passesEntryFilter(r, ltp, t) ==
  LET risk == Max(1, ltp - r.bu1)
      reward == Max(0, r.bu5 - ltp)
      isMCXEvening == r.exchange = "MCX" /\ ISTHour(t) >= MCX_EVENING_HOUR
      minProb == IF isMCXEvening THEN MCX_EVENING_MIN_PROBABILITY ELSE MIN_PROBABILITY_SCORE
  IN  /\ r.in_range_up
      /\ ~r.sideways
      /\ r.trend = "UP"
      /\ ~(r.confirmation < MIN_CONFIRMATION)
      /\ ~RatLess(Rat(reward, risk), MIN_RR)
      /\ ~(r.probability_score < minProb)
      /\ ~r.spike_flag
      /\ ~(JACKPOT_ONLY /\ ~r.jackpot_be5_reversal)
      /\ tradeGuardLongRow(r, ltp).ok
      /\ ~shouldAutoClose(r.exchange, t)

\* an entry loop body that does not look at the open-trade map
considerEntryIgnoringOpen(st, r, day, t) ==
  LET cool == IF r.symbol \in DOMAIN st.cooldownUntil THEN st.cooldownUntil[r.symbol] ELSE 0
      ltp == toNum(r.ltp)
  IN  IF ~r.fetch_done THEN st
      ELSE IF t < cool THEN st
      ELSE IF ltp = NULL THEN st
      ELSE IF ~passesEntryFilter(r, ltp, t) THEN st
      ELSE openTradeFromRow(st, r, day, "be5_reversal_guard_entry", t).st

\* the body of the entry loop for one trigger row
considerEntry(st, r, day, t) ==
  LET cool == IF r.symbol \in DOMAIN st.cooldownUntil THEN st.cooldownUntil[r.symbol] ELSE 0
      ltp == toNum(r.ltp)
  IN  IF ~r.fetch_done THEN st
      ELSE IF r.symbol \in DOMAIN st.openTrades THEN st
      ELSE IF t < cool THEN st
      ELSE IF ltp = NULL THEN st
      ELSE IF ~passesEntryFilter(r, ltp, t) THEN st
      ELSE openTradeFromRow(st, r, day, "be5_reversal_guard_entry", t).st

RECURSIVE entryLoop(_, _, _, _, _)
entryLoop(st, triggerRows, i, day, t) ==
  IF i > Len(triggerRows) \/ Thrown(st.log) THEN st
  ELSE entryLoop(considerEntry(st, triggerRows[i], day, t), triggerRows, i + 1, day, t)

\* the two passes in the other order: entries, then management
paperPassesEntriesFirst(st, item, day, t) ==
  LET st1 == entryLoop(st, item.triggerRows, 1, day, t)
  IN  manageLoop(st1, KeySeq(DOMAIN st1.openTrades), 1, item.allRows, t)

\* the two passes of a cycle over a new version: management, then entries
paperPasses(st, item, day, t) ==
  entryLoop(manageLoop(st, KeySeq(DOMAIN st.openTrades), 1, item.allRows, t),
            item.triggerRows, 1, day, t)

\* a version test with the comparison the wrong way round
versionProcessedNever(last, version) == last > version

\* the engine's test that it already ran on this version
versionProcessed(last, version) == last = version

\* history of the derived-row reads since the loader's version last changed
NoteRead(rd, version, key, g) ==
  LET seen == IF rd.version = version THEN rd.seen ELSE EmptyMap
      entry == IF key \in DOMAIN seen
                 THEN [first |-> seen[key].first, last |-> g.item,
                       computes |-> Min(2, seen[key].computes + (IF g.computed THEN 1 ELSE 0))]
                 ELSE [first |-> g.item, last |-> g.item,
                       computes |-> IF g.computed THEN 1 ELSE 0]
  IN  [version |-> version, seen |-> (key :> entry) @@ seen]

(***************************************************************************)
(* Inputs.  universe is the set of instruments the producer tracks; it is  *)
(* fixed for a run.  A snapshot holds a row for each instrument fetched so  *)
(* far.  The cumulative session volume the producer reports grows with     *)
(* every snapshot it writes.                                               *)
(***************************************************************************)
TickSteps == {30}

\* server start times (IST seconds from the midnight of the first day): one
\* minute before the equity close threshold, one minute before the MCX one,
\* and ten minutes into the second day
DayStart == 15 * 3600 + 27 * 60 + 30
EveningStart == 23 * 3600 + 29 * 60
NightStart == DAY_SEC + 10 * 60

Closes == {1000000}

Inst(symbol) == CHOOSE i \in Instruments : i.symbol = symbol

\* the runs explored: the tracked universe and the time the server starts
Sessions ==
  { [universe |-> {Inst("NSE|2002")}, start |-> DayStart],
    [universe |-> {Inst("MCX|1001")}, start |-> DayStart],
    [universe |-> {Inst("MCX|1001")}, start |-> EveningStart],
    [universe |-> {Inst("MCX|1001"), Inst("NSE|2002"), Inst("NSE|3003")}, start |-> DayStart],
    [universe |-> {Inst("NFO|4004"), Inst("NFO|5005")}, start |-> DayStart],
    [universe |-> {Inst("NSE|2002"), Inst("NSE|3003")}, start |-> NightStart] }

ViewSessions == { [universe |-> {Inst("NSE|3003")}, start |-> DayStart] }

RowInputs(inst, univ) ==
  IF Cardinality(univ) > 1
    THEN {[ltp |-> IF inst.exchange = "MCX" THEN 1052200 ELSE 1005222, fetch_done |-> TRUE]}
  ELSE IF inst.tsym = "TCS"
    THEN {[ltp |-> l, fetch_done |-> TRUE] : l \in {1005222, 1007833, NULL}}
  ELSE IF inst.exchange = "MCX"
    THEN {[ltp |-> l, fetch_done |-> TRUE] : l \in {1052200, 1078300}}
         \cup {[ltp |-> 1052200, fetch_done |-> FALSE]}
  ELSE {[ltp |-> l, fetch_done |-> TRUE] :
           l \in {1000000, 1005222, 1007833, 1010444, 1060000}}

BaseRow(inst, in, close, volume, t) ==
  [symbol |-> inst.symbol, tsym |-> inst.tsym, exchange |-> inst.exchange,
   ltp |-> in.ltp, volume |-> volume,
   first_1m_close |-> close, first_5m_close |-> close, first_15m_close |-> close,
   fetch_done |-> in.fetch_done, updated_at |-> t]

\* the instruments of insts in the order the producer writes them
RECURSIVE WriteOrder(_)
WriteOrder(insts) ==
  IF insts = {} THEN << >>
  ELSE LET inst == CHOOSE x \in insts : \A y \in insts : StrRank[x.symbol] <= StrRank[y.symbol]
       IN  << inst >> \o WriteOrder(insts \ {inst})

\* the row sequences the producer can write at time t with session volume
\* `volume`: it has fetched the first k instruments of its universe so far
\* (k = 0 is a snapshot without rows)
RowSeqs(univ, volume, t) ==
  LET order == WriteOrder(univ)
  IN  UNION { { [i \in 1..k |-> BaseRow(order[i], ins[i], c, volume, t)] :
                  ins \in { f \in [1..k -> UNION {RowInputs(x, univ) : x \in univ}] :
                              \A i \in 1..k : f[i] \in RowInputs(order[i], univ) },
                  c \in Closes } : k \in 0..Cardinality(univ) }

DashConfigs == {cfgKey("5m", "smart"), cfgKey("5m", "micro")}

(***************************************************************************)
(* Init and the actions.                                                   *)
(***************************************************************************)
InitState(sessions, schemas) ==
  /\ \E s \in sessions : universe = s.universe /\ now = s.start
  /\ schema \in schemas
  /\ ticks = 0
  /\ snapshotFile = [exists |-> FALSE, mtimeMs |-> 0, data |-> EmptySnapshot, valid |-> TRUE]
  /\ snapshotCache = [mtimeMs |-> NO_MTIME, data |-> EmptySnapshot]
  /\ derivedCache = [snapshotMtimeMs |-> NO_MTIME, byConfig |-> EmptyMap]
  /\ signalState = EmptyMap
  /\ openTrades = EmptyMap
  /\ cooldownUntil = EmptyMap
  /\ lastSnapshotMtime = NO_MTIME
  /\ paper_trades = << >>
  /\ broker_limits = EmptyMap
  /\ cycle = NoCycle
  /\ reads = [version |-> NO_MTIME, seen |-> EmptyMap]
  /\ priorData = EmptySnapshot

\* the table has every column: getPaperDb has created or migrated it
InitWith(sessions) == InitState(sessions, {CurrentSchema})

Init == InitWith(Sessions)

\* the clock advances
Tick ==
  /\ ~Terminated
  /\ ticks < MaxTicks
  /\ \E d \in TickSteps : now' = now + d
  /\ ticks' = ticks + 1
  /\ cycle' = NoCycle
  /\ UNCHANGED <<schema, universe, snapshotFile, snapshotCache, derivedCache, signalState,
                 openTrades, cooldownUntil, lastSnapshotMtime, paper_trades,
                 broker_limits, reads, priorData>>

\* the producer replaces the snapshot file; its mtime is new.  A version
\* that is overwritten before the server loads it is never seen by the
\* server, so the producer is modelled as writing after a load; a file that
\* is not there or does not parse is never loaded and can be replaced.
WriteSnapshot ==
  /\ ~Terminated
  /\ snapshotFile.mtimeMs < MaxVersion
  /\ \/ ~snapshotFile.exists
     \/ ~snapshotFile.valid
     \/ snapshotCache.mtimeMs = snapshotFile.mtimeMs
  /\ \E rows \in RowSeqs(universe, 10 * (snapshotFile.mtimeMs + 1), now) :
       snapshotFile' = [exists |-> TRUE, mtimeMs |-> snapshotFile.mtimeMs + 1,
                        data |-> [day |-> ISTDay(now), rows |-> rows], valid |-> TRUE]
  /\ priorData' = snapshotFile.data
  /\ cycle' = NoCycle
  /\ UNCHANGED <<schema, universe, now, ticks, snapshotCache, derivedCache, signalState, openTrades,
                 cooldownUntil, lastSnapshotMtime, paper_trades, broker_limits, reads>>

\* runPaperCycle, one firing of the interval timer
runPaperCycle ==
  LET sc == loadSnapshot(snapshotFile, snapshotCache)
      baseRows == sc.data.rows
      g == getDerivedForConfig(derivedCache, signalState, sc.mtimeMs, baseRows,
                               PAPER_TF, PAPER_FACTOR, now)
      day == sc.data.day
      st0 == [openTrades |-> openTrades, cooldownUntil |-> cooldownUntil,
              paper_trades |-> paper_trades, broker_limits |-> broker_limits,
              schema |-> schema, log |-> << >>]
      st2 == paperPasses(st0, g.item, day, now)
  IN  /\ ~Terminated
      /\ snapshotCache' = sc
      /\ UNCHANGED <<universe, now, ticks, snapshotFile, priorData>>
      /\ IF Len(baseRows) = 0
           THEN /\ cycle' = [op |-> "cycle", ran |-> FALSE, version |-> sc.mtimeMs, log |-> << >>]
                /\ UNCHANGED <<derivedCache, signalState, openTrades, cooldownUntil,
                               lastSnapshotMtime, paper_trades, broker_limits, schema,
                               reads>>
           ELSE /\ derivedCache' = g.derivedCache
                /\ signalState' = g.signalState
                /\ reads' = NoteRead(reads, sc.mtimeMs, PaperKey, g)
                /\ IF versionProcessed(lastSnapshotMtime, sc.mtimeMs)
                     THEN /\ cycle' = [op |-> "cycle", ran |-> FALSE,
                                       version |-> sc.mtimeMs, log |-> << >>]
                          /\ UNCHANGED <<openTrades, cooldownUntil, lastSnapshotMtime,
                                         paper_trades, broker_limits, schema>>
                     ELSE /\ lastSnapshotMtime' = sc.mtimeMs
                          /\ openTrades' = st2.openTrades
                          /\ cooldownUntil' = st2.cooldownUntil
                          /\ paper_trades' = st2.paper_trades
                          /\ broker_limits' = st2.broker_limits
                          /\ schema' = st2.schema
                          /\ cycle' = [op |-> "cycle", ran |-> TRUE,
                                       version |-> sc.mtimeMs, log |-> st2.log]

\* dashboardData for a (tf, factor) request
dashboardData(timeframe, factorName) ==
  LET sc == loadSnapshot(snapshotFile, snapshotCache)
      g == getDerivedForConfig(derivedCache, signalState, sc.mtimeMs, sc.data.rows,
                               timeframe, factorName, now)
      limits == getBrokerLimitsStatus(paper_trades, broker_limits, now)
  IN  /\ snapshotCache' = sc
      /\ derivedCache' = g.derivedCache
      /\ signalState' = g.signalState
      /\ broker_limits' = limits.broker_limits
      /\ reads' = NoteRead(reads, sc.mtimeMs, cfgKey(timeframe, factorName), g)
      /\ cycle' = NoCycle
      /\ UNCHANGED <<schema, universe, now, ticks, snapshotFile, openTrades, cooldownUntil,
                     lastSnapshotMtime, paper_trades, priorData>>

Dashboard == \E key \in DashConfigs : dashboardData(key[1], key[2])

\* the engine with its producer and clock
NextEngine == Tick \/ WriteSnapshot \/ runPaperCycle

SpecEngine == Init /\ [][NextEngine]_vars

\* the engine together with dashboard clients, for one tracked instrument
InitViews == InitWith(ViewSessions)

Next == Tick \/ WriteSnapshot \/ runPaperCycle \/ Dashboard

Spec == InitViews /\ [][Next]_vars

(***************************************************************************)
(* Survey of the derived-row engine and of the trade attempt.  The server  *)
(* starts on a snapshot the producer has already written; its rows are     *)
(* drawn from instruments of every class of the smart selector, with ltps  *)
(* on and next to the selector's thresholds and the levels, a zero close,  *)
(* a timeframe whose close is not there yet, and snapshots whose rows are  *)
(* not in symbol order.  Clients read the rows under several configs, and  *)
(* openTradeFromRow is called on rows of every kind, not only on the ones  *)
(* the entry loop lets through.                                            *)
(***************************************************************************)
SurveyClose == 1500 * 10000

\* 1500 +/- 3%, 4%, 4.67%, 5%, 6.67%, 8%, 10%, 13.33%, the next price above a
\* threshold, and the micro levels bu1, bu3, bu5 and be1 of 1500
SurveyLtps ==
  {15450000, 15450001, 15600000, 15700000, 15750000, 15750001, 16000000,
   16200000, 16200001, 16500000, 16500001, 17000000, 14400000, 13000000,
   15000000, 15039165, 15039164, 15117495, 15195825, 15195826, 14960835, NULL}

SurveyRow(inst, ltp, close1m, close5m, close15m) ==
  [symbol |-> inst.symbol, tsym |-> inst.tsym, exchange |-> inst.exchange,
   ltp |-> ltp, volume |-> 10,
   first_1m_close |-> close1m, first_5m_close |-> close5m, first_15m_close |-> close15m,
   fetch_done |-> TRUE, updated_at |-> DayStart]

FullRow(symbol, ltp) == SurveyRow(Inst(symbol), ltp, SurveyClose, SurveyClose, SurveyClose)

\* the snapshots of the survey
SurveyRowSeqs ==
  { << FullRow(i.symbol, ltp) >> : i \in Instruments, ltp \in SurveyLtps }
  \cup { << SurveyRow(Inst("NSE|2002"), ltp, 0, 0, SurveyClose) >> : ltp \in {0, 15000000} }
  \cup { << SurveyRow(Inst("NSE|2002"), 15117495, SurveyClose, SurveyClose, NULL) >> }
  \cup { << FullRow("NSE|3003", 15117495), FullRow("NSE|2002", 15117495),
            FullRow("MCX|1001", 16200000) >>,
         << FullRow("NSE|3003", 15000000), FullRow("NFO|5005", 15117495),
            FullRow("CDS|6006", 15600000), FullRow("NSE|2002", 16000000) >>,
         << FullRow("NSE|2002", 15117495),
            [FullRow("NSE|2002", 15039165) EXCEPT !.tsym = ""] >> }

SurveyConfigs ==
  {cfgKey("5m", "smart"), cfgKey("5m", "micro"), cfgKey("1m", "mini"), cfgKey("15m", "mega")}

InitSurvey ==
  /\ \E rows \in SurveyRowSeqs :
       /\ universe = { i \in Instruments : \E k \in 1..Len(rows) : rows[k].symbol = i.symbol }
       /\ snapshotFile = [exists |-> TRUE, mtimeMs |-> 1,
                          data |-> [day |-> ISTDay(DayStart), rows |-> rows],
                          valid |-> TRUE]
  /\ now = DayStart
  /\ ticks = 0
  /\ snapshotCache = [mtimeMs |-> NO_MTIME, data |-> EmptySnapshot]
  /\ derivedCache = [snapshotMtimeMs |-> NO_MTIME, byConfig |-> EmptyMap]
  /\ signalState = EmptyMap
  /\ openTrades = EmptyMap
  /\ cooldownUntil = EmptyMap
  /\ lastSnapshotMtime = NO_MTIME
  /\ paper_trades = << >>
  /\ broker_limits = EmptyMap
  /\ schema = CurrentSchema
  /\ cycle = NoCycle
  /\ reads = [version |-> NO_MTIME, seen |-> EmptyMap]
  /\ priorData = EmptySnapshot

DashboardSurvey == \E key \in SurveyConfigs : dashboardData(key[1], key[2])

\* a row as openTradeFromRow reads it: a property the row lacks reads as no value
NoLevels ==
  [close |-> NULL, points |-> NULL, bu1 |-> NULL, bu2 |-> NULL, bu3 |-> NULL, bu4 |-> NULL,
   bu5 |-> NULL, be1 |-> NULL, be2 |-> NULL, be3 |-> NULL, be4 |-> NULL, be5 |-> NULL]

\* the rows a trade can be attempted on: the derived rows of the paper config
\* and the raw rows of the loaded snapshot
AttemptRows ==
  (IF PaperKey \in DOMAIN derivedCache.byConfig
     THEN { derivedCache.byConfig[PaperKey].allRows[k] :
              k \in 1..Len(derivedCache.byConfig[PaperKey].allRows) }
     ELSE {})
  \cup { snapshotCache.data.rows[k] @@ NoLevels : k \in 1..Len(snapshotCache.data.rows) }

\* openTradeFromRow called on a row of a symbol without an open trade
TradeAttempt ==
  \E row \in AttemptRows :
    LET st0 == [openTrades |-> openTrades, cooldownUntil |-> cooldownUntil,
                paper_trades |-> paper_trades, broker_limits |-> broker_limits,
                schema |-> schema, log |-> << >>]
        res == openTradeFromRow(st0, row, snapshotCache.data.day, "trend_rr_entry", now)
    IN  /\ row.symbol \notin DOMAIN openTrades
        /\ openTrades' = res.st.openTrades
        /\ cooldownUntil' = res.st.cooldownUntil
        /\ paper_trades' = res.st.paper_trades
        /\ broker_limits' = res.st.broker_limits
        /\ schema' = res.st.schema
        /\ cycle' = [op |-> "attempt", ran |-> res.ok, version |-> snapshotCache.mtimeMs,
                     log |-> << Event("attempt", row.symbol, row) >>]
        /\ UNCHANGED <<universe, now, ticks, snapshotFile, snapshotCache, derivedCache,
                       signalState, lastSnapshotMtime, reads, priorData>>

NextSurvey == DashboardSurvey \/ TradeAttempt

SpecSurvey == InitSurvey /\ [][NextSurvey]_vars

(***************************************************************************)
(* The engine under faults of its environment: the snapshot file can be    *)
(* away or hold text that does not parse when the server looks at it, and  *)
(* the table paper_trades can lack columns of the current schema: the      *)
(* migration getPaperDb runs when it opens the database ignores an ALTER   *)
(* TABLE that fails.  An exception that leaves runPaperCycle leaves the     *)
(* timer callback, which ends the process: nothing happens after it.       *)
(***************************************************************************)
\* the tables the server can find: the current one, one from before any
\* migration, and one that lacks the column of the largest profit and those
\* of the charges, on which ALTER TABLE works from now on or does not
FaultSchemas ==
  {CurrentSchema, [missing |-> MigrationColumns, alter |-> TRUE, locked |-> FALSE]}
  \cup { [missing |-> {"max_profit_points"} \cup CloseColumns, alter |-> a,
            locked |-> FALSE] : a \in BOOLEAN }

\* the snapshot file is taken away: statSync throws
RemoveSnapshot ==
  /\ ~Terminated
  /\ snapshotFile.exists
  /\ snapshotFile' = [snapshotFile EXCEPT !.exists = FALSE]
  /\ cycle' = NoCycle
  /\ UNCHANGED <<schema, universe, now, ticks, snapshotCache, derivedCache, signalState, openTrades,
                 cooldownUntil, lastSnapshotMtime, paper_trades, broker_limits, reads,
                 priorData>>

\* the file that was taken away is back, with the content and mtime it had
RestoreSnapshot ==
  /\ ~Terminated
  /\ ~snapshotFile.exists
  /\ snapshotFile.mtimeMs > 0
  /\ snapshotFile' = [snapshotFile EXCEPT !.exists = TRUE]
  /\ cycle' = NoCycle
  /\ UNCHANGED <<schema, universe, now, ticks, snapshotCache, derivedCache, signalState, openTrades,
                 cooldownUntil, lastSnapshotMtime, paper_trades, broker_limits, reads,
                 priorData>>

\* the file holds a write that is not complete: its mtime is new and
\* JSON.parse throws on its text
TruncateSnapshot ==
  /\ ~Terminated
  /\ snapshotFile.mtimeMs < MaxVersion
  /\ snapshotFile.exists
  /\ snapshotFile.valid
  /\ snapshotFile' = [exists |-> TRUE, mtimeMs |-> snapshotFile.mtimeMs + 1,
                      data |-> EmptySnapshot, valid |-> FALSE]
  /\ priorData' = snapshotFile.data
  /\ cycle' = NoCycle
  /\ UNCHANGED <<schema, universe, now, ticks, snapshotCache, derivedCache, signalState, openTrades,
                 cooldownUntil, lastSnapshotMtime, paper_trades, broker_limits, reads>>

InitFaults == InitState(ViewSessions, FaultSchemas)

NextFaults ==
  Tick \/ WriteSnapshot \/ runPaperCycle \/ RemoveSnapshot \/ RestoreSnapshot
    \/ TruncateSnapshot

SpecFaults == InitFaults /\ [][NextFaults]_vars

(***************************************************************************)
(* The engine over a longer life of one trade: the producer tracks one     *)
(* equity whose first 5m close is 100 and writes two snapshots with the    *)
(* ltp 100.90, on the second of which the engine enters (the first has no  *)
(* volume delta to score), and then up to four more, with ltps below bu1,  *)
(* at and between the levels of the ladder, at bu5 and without an ltp.     *)
(***************************************************************************)
MaxLadderVersion == 6

\* the snapshots the producer writes with the entry ltp
EntryVersions == 2

EntryLtp == 1009000

\* 100.20, 100.30, 100.80, 101.04, 101.10 and bu5 = 101.3055
LadderLtps == {1002000, 1003000, 1008000, 1010400, 1011000, 1013055, NULL}

LadderSessions == { [universe |-> {Inst("NSE|2002")}, start |-> DayStart] }

InitLadder == InitWith(LadderSessions)

\* the producer replaces the snapshot file after the server has loaded it
WriteLadderSnapshot ==
  /\ ~Terminated
  /\ snapshotFile.mtimeMs < MaxLadderVersion
  /\ ~snapshotFile.exists \/ snapshotCache.mtimeMs = snapshotFile.mtimeMs
  /\ \E ltp \in (IF snapshotFile.mtimeMs < EntryVersions THEN {EntryLtp} ELSE LadderLtps) :
       snapshotFile' =
         [exists |-> TRUE, mtimeMs |-> snapshotFile.mtimeMs + 1,
          data |-> [day |-> ISTDay(now),
                    rows |-> << BaseRow(Inst("NSE|2002"),
                                        [ltp |-> ltp, fetch_done |-> TRUE],
                                        1000000, 10 * (snapshotFile.mtimeMs + 1), now) >>],
          valid |-> TRUE]
  /\ priorData' = snapshotFile.data
  /\ cycle' = NoCycle
  /\ UNCHANGED <<schema, universe, now, ticks, snapshotCache, derivedCache, signalState,
                 openTrades, cooldownUntil, lastSnapshotMtime, paper_trades, broker_limits,
                 reads>>

NextLadder == Tick \/ WriteLadderSnapshot \/ runPaperCycle

SpecLadder == InitLadder /\ [][NextLadder]_vars

(***************************************************************************)
(* A database that refuses writes for a while (another connection holds    *)
(* its lock): a write then throws an error whose text is not that of a     *)
(* missing column.  The UPDATEs of updateOpenTrade and closeTrade swallow  *)
(* it; the writes of getBrokerLimitsStatus are not in a try block.         *)
(***************************************************************************)
LockDatabase ==
  /\ ~Terminated
  /\ ~schema.locked
  /\ schema' = [schema EXCEPT !.locked = TRUE]
  /\ cycle' = NoCycle
  /\ UNCHANGED <<universe, now, ticks, snapshotFile, snapshotCache, derivedCache, signalState,
                 openTrades, cooldownUntil, lastSnapshotMtime, paper_trades,
                 broker_limits, reads, priorData>>

UnlockDatabase ==
  /\ ~Terminated
  /\ schema.locked
  /\ schema' = [schema EXCEPT !.locked = FALSE]
  /\ cycle' = NoCycle
  /\ UNCHANGED <<universe, now, ticks, snapshotFile, snapshotCache, derivedCache, signalState,
                 openTrades, cooldownUntil, lastSnapshotMtime, paper_trades,
                 broker_limits, reads, priorData>>

InitLocks == InitWith(LadderSessions)

NextLocks == Tick \/ WriteSnapshot \/ runPaperCycle \/ LockDatabase \/ UnlockDatabase

SpecLocks == InitLocks /\ [][NextLocks]_vars

(***************************************************************************)
(* Two trading days: the server runs from one minute before the equity     *)
(* close of the first day into the next morning, the producer writing      *)
(* nothing in between.                                                     *)
(***************************************************************************)
\* from 15:27:30 to 09:27:30 of the next day
OvernightStep == 18 * 3600

DaySessions ==
  { [universe |-> {Inst("MCX|1001"), Inst("NSE|2002"), Inst("NSE|3003"), Inst("NFO|5005")},
     start |-> DayStart] }

InitDays == InitWith(DaySessions)

Overnight ==
  /\ ~Terminated
  /\ ticks < MaxTicks
  /\ ISTDay(now) = ISTDay(DayStart)
  /\ now' = now + OvernightStep
  /\ ticks' = ticks + 1
  /\ cycle' = NoCycle
  /\ UNCHANGED <<schema, universe, snapshotFile, snapshotCache, derivedCache, signalState,
                 openTrades, cooldownUntil, lastSnapshotMtime, paper_trades,
                 broker_limits, reads, priorData>>

NextDays == Overnight \/ WriteSnapshot \/ runPaperCycle

SpecDays == InitDays /\ [][NextDays]_vars

(***************************************************************************)
(* The BE5 retest: one equity whose ltp falls to BE5 and recovers, with a  *)
(* session volume that grows by one or two lots a snapshot, and a clock    *)
(* that advances by more than half the lookback at a time.                 *)
(***************************************************************************)
MaxRetestVersion == 4

\* seconds the clock advances between two snapshots
RetestSteps == {1000}

\* be5 = 98.6945, the close 100, bu2 = 100.5222, and a row without ltp
RetestLtps == {986945, 1000000, 1005222, NULL}

\* the increments of the session volume between two snapshots
RetestLots == {10, 20}

\* the session volume of the snapshot on disk
VolumeOnDisk ==
  IF snapshotFile.data.rows = << >> THEN 0 ELSE snapshotFile.data.rows[1].volume

InitRetest == InitWith(LadderSessions)

Wait ==
  /\ ~Terminated
  /\ ticks < MaxTicks
  /\ \E d \in RetestSteps : now' = now + d
  /\ ticks' = ticks + 1
  /\ cycle' = NoCycle
  /\ UNCHANGED <<schema, universe, snapshotFile, snapshotCache, derivedCache, signalState,
                 openTrades, cooldownUntil, lastSnapshotMtime, paper_trades,
                 broker_limits, reads, priorData>>

WriteRetestSnapshot ==
  /\ ~Terminated
  /\ snapshotFile.mtimeMs < MaxRetestVersion
  /\ ~snapshotFile.exists \/ snapshotCache.mtimeMs = snapshotFile.mtimeMs
  /\ \E ltp \in RetestLtps, lot \in RetestLots :
       snapshotFile' =
         [exists |-> TRUE, mtimeMs |-> snapshotFile.mtimeMs + 1,
          data |-> [day |-> ISTDay(now),
                    rows |-> << BaseRow(Inst("NSE|2002"), [ltp |-> ltp, fetch_done |-> TRUE],
                                        1000000, VolumeOnDisk + lot, now) >>],
          valid |-> TRUE]
  /\ priorData' = snapshotFile.data
  /\ cycle' = NoCycle
  /\ UNCHANGED <<schema, universe, now, ticks, snapshotCache, derivedCache, signalState,
                 openTrades, cooldownUntil, lastSnapshotMtime, paper_trades,
                 broker_limits, reads>>

NextRetest == Wait \/ WriteRetestSnapshot \/ runPaperCycle

SpecRetest == InitRetest /\ [][NextRetest]_vars

(***************************************************************************)
(* Properties of the paper engine (SpecEngine) and of the views (Spec).    *)
(***************************************************************************)
TradeIds == 1..Len(paper_trades)

LogIdx == 1..Len(cycle.log)

\* the derived rows the last paper cycle worked on
PaperItem ==
  IF PaperKey \in DOMAIN derivedCache.byConfig
    THEN derivedCache.byConfig[PaperKey] ELSE EmptyItem

C2_Terminal ==
  /\ [](\A i \in TradeIds :
          paper_trades[i].status = "CLOSED" =>
            /\ paper_trades[i].exit_ltp # NULL
            /\ paper_trades[i].exit_ts # NULL
            /\ paper_trades[i].exit_ts >= paper_trades[i].entry_ts
            /\ \A s \in DOMAIN openTrades : openTrades[s].id # i)
  /\ [][\A i \in TradeIds :
          paper_trades[i].status = "CLOSED" =>
            /\ i <= Len(paper_trades')
            /\ paper_trades'[i] = paper_trades[i]]_vars

\* a later cycle has processed a row of the symbol of a CLOSED trade
C2_Witness ==
  /\ cycle.op = "cycle" /\ cycle.ran
  /\ \E i \in TradeIds :
       /\ paper_trades[i].status = "CLOSED"
       /\ paper_trades[i].exit_ts < now
       /\ RowIndex(PaperItem.allRows, paper_trades[i].symbol) # 0

C5_VersionGate ==
  [][/\ (cycle'.op = "cycle" /\ snapshotCache'.mtimeMs = lastSnapshotMtime) =>
          /\ cycle'.log = << >>
          /\ UNCHANGED <<paper_trades, openTrades, cooldownUntil, broker_limits,
                         lastSnapshotMtime>>
     /\ (cycle'.op = "cycle" /\ cycle'.log # << >>) =>
          /\ lastSnapshotMtime' > lastSnapshotMtime
          /\ lastSnapshotMtime' = snapshotCache'.mtimeMs]_vars

\* a cycle has just skipped a processed version although the clock has
\* advanced since an open trade was last updated
C5_Witness ==
  /\ cycle.op = "cycle" /\ ~cycle.ran
  /\ cycle.version = lastSnapshotMtime
  /\ \E s \in DOMAIN openTrades :
       /\ openTrades[s].updated_at < now
       /\ RowIndex(PaperItem.allRows, s) # 0

\* C6: after a cycle that processes a new version, no trade is OPEN on an
\* exchange whose close threshold has been reached.
C6_MarketCloseClosesAll ==
  (cycle.op = "cycle" /\ cycle.ran) =>
    \A i \in TradeIds :
      paper_trades[i].status = "OPEN" => ~shouldAutoClose(paper_trades[i].exchange, now)

\* C7: every trade opened by a cycle comes from a trigger row of the paper
\* config that has fetch_done, bu1 <= ltp <= bu5, not sideways, trend UP,
\* confirmation >= MIN_CONFIRMATION, reward/risk >= MIN_RR, probability_score
\* >= MIN_PROBABILITY_SCORE (25 for MCX from 17:00 IST), no spike flag, the
\* jackpot flag when JACKPOT_ONLY, and a market that has not reached its close.
C7_EntryFilter ==
  \A i \in LogIdx :
    cycle.log[i].ev = "open" =>
      \E k \in 1..Len(PaperItem.triggerRows) :
        LET r == PaperItem.triggerRows[k]
        IN  /\ r.symbol = cycle.log[i].symbol
            /\ r.fetch_done
            /\ r.ltp # NULL
            /\ r.bu1 <= r.ltp /\ r.ltp <= r.bu5
            /\ ~r.sideways
            /\ r.trend = "UP"
            /\ r.confirmation >= MIN_CONFIRMATION
            /\ Max(0, r.bu5 - r.ltp) * MIN_RR.d >= MIN_RR.n * Max(1, r.ltp - r.bu1)
            /\ r.probability_score >=
                 (IF r.exchange = "MCX" /\ ISTHour(now) >= 17 THEN 25
                  ELSE MIN_PROBABILITY_SCORE)
            /\ ~r.spike_flag
            /\ (JACKPOT_ONLY => r.jackpot_be5_reversal)
            /\ (r.exchange \in DOMAIN MARKET_CLOSE =>
                  ISTSecondsOfDay(now) < MARKET_CLOSE[r.exchange])
            /\ \E t \in TradeIds :
                 /\ paper_trades[t].symbol = r.symbol
                 /\ paper_trades[t].entry_ts = now
                 /\ paper_trades[t].entry_ltp = r.ltp

\* an MCX trade opened in the evening on a score below MIN_PROBABILITY_SCORE
C7_Witness ==
  \E i \in LogIdx :
    /\ cycle.log[i].ev = "open"
    /\ \E k \in 1..Len(PaperItem.triggerRows) :
         LET r == PaperItem.triggerRows[k]
         IN  /\ r.symbol = cycle.log[i].symbol
             /\ r.exchange = "MCX"
             /\ r.probability_score < MIN_PROBABILITY_SCORE

\* C8: an entry attempt that reaches the governor is blocked exactly when the
\* governor's status is red; it goes through on yellow and on green.
C8_BlockedExactlyWhenRed ==
  \A i \in LogIdx :
    /\ cycle.log[i].ev = "blocked" => cycle.log[i].info = "red"
    /\ cycle.log[i].ev = "open" => cycle.log[i].info # "red"

\* C9: the tsl_sl_price of a trade that is OPEN never decreases in a step,
\* and it is never below the be1 it starts from.
C9_TslMonotone ==
  /\ [](\A i \in TradeIds : paper_trades[i].tsl_sl_price >= paper_trades[i].be1)
  /\ [][\A i \in TradeIds :
          paper_trades[i].status = "OPEN" =>
            paper_trades'[i].tsl_sl_price >= paper_trades[i].tsl_sl_price]_vars

\* an OPEN trade whose trailing stop has been promoted to bu1
C9_Witness ==
  \E s \in DOMAIN openTrades :
    /\ openTrades[s].tsl_active = 1
    /\ openTrades[s].tsl_sl_price = openTrades[s].bu1
    /\ openTrades[s].last_ltp < openTrades[s].bu4

\* C10: since the loader's version last changed, the rows of every config
\* read were computed once, and every read of the config returned the rows
\* its first read returned, which are the rows the cache holds.
C10_ComputedOnce ==
  \A key \in DOMAIN reads.seen :
    /\ reads.seen[key].computes = 1
    /\ reads.seen[key].last = reads.seen[key].first
    /\ (derivedCache.snapshotMtimeMs = reads.version /\ key \in DOMAIN derivedCache.byConfig)
    /\ derivedCache.byConfig[key] = reads.seen[key].first

\* a paper cycle has read the paper config again, within a version in which
\* another config was read too
C10_Witness ==
  /\ cycle.op = "cycle" /\ ~cycle.ran
  /\ cycle.version = reads.version
  /\ cycle.version = lastSnapshotMtime
  /\ PaperKey \in DOMAIN reads.seen
  /\ \E key \in DOMAIN reads.seen : key # PaperKey

(***************************************************************************)
(* Properties of the derived cache and of the signal state.                *)
(***************************************************************************)
BaseFields ==
  {"symbol", "tsym", "exchange", "ltp", "volume", "first_1m_close", "first_5m_close",
   "first_15m_close", "fetch_done", "updated_at"}

\* the base row a derived row was enriched from
BaseOf(r) == [f \in BaseFields |-> r[f]]

\* the version at which the producer wrote a row: its session volume grows
\* by 10 with every snapshot
RowVersion(r) == r.volume \div 10

\* the rows of a snapshot that pass the numeric guard of a timeframe
Guarded(rows, timeframe) ==
  SelectSeq(rows, LAMBDA r : toNum(r.ltp) # NULL /\ toNum(r[TF_CLOSE_FIELD[timeframe]]) # NULL
                             /\ r.symbol # "")

\* the set of base rows behind a sequence of derived rows
BaseSet(rows) == { BaseOf(rows[i]) : i \in 1..Len(rows) }

\* C11: every entry of the derived cache was computed from the snapshot of
\* the cache's recorded version; a read that moves the cache to another
\* version leaves in it only the entry it has just computed from the rows of
\* the snapshot it loaded, whatever the (tf, factor) of the read.
C11_NoStaleEntries ==
  /\ [](\A key \in DOMAIN derivedCache.byConfig :
          LET item == derivedCache.byConfig[key]
          IN  /\ \A i \in 1..Len(item.allRows) :
                   RowVersion(item.allRows[i]) = derivedCache.snapshotMtimeMs
              /\ BaseSet(item.triggerRows) \subseteq BaseSet(item.allRows)
              /\ derivedCache.snapshotMtimeMs = snapshotCache.mtimeMs =>
                   BaseSet(item.allRows) = BaseSet(Guarded(snapshotCache.data.rows, key[1])))
  /\ [][derivedCache'.snapshotMtimeMs # derivedCache.snapshotMtimeMs =>
          /\ derivedCache'.snapshotMtimeMs = snapshotCache'.mtimeMs
          /\ Cardinality(DOMAIN derivedCache'.byConfig) = 1
          /\ \A key \in DOMAIN derivedCache'.byConfig :
               /\ reads'.seen[key].computes = 1
               /\ BaseSet(derivedCache'.byConfig[key].allRows)
                    = BaseSet(Guarded(snapshotCache'.data.rows, key[1]))]_vars

\* the cache holds rows of a version after the first for one config only,
\* although both configs have been computed since the server started
C11_Witness ==
  /\ derivedCache.snapshotMtimeMs >= 2
  /\ Cardinality(DOMAIN derivedCache.byConfig) = 1
  /\ Cardinality(DOMAIN signalState) = 2
  /\ \E key \in DOMAIN derivedCache.byConfig : derivedCache.byConfig[key].allRows # << >>

\* the step recomputes the rows of key: the cache gains an entry for it
Recomputed(key) ==
  /\ key \in DOMAIN derivedCache'.byConfig
  /\ \/ derivedCache'.snapshotMtimeMs # derivedCache.snapshotMtimeMs
     \/ key \notin DOMAIN derivedCache.byConfig

\* cfgState.get(symbol) || defaults, as the recomputation of the step reads it
UsedPrev(key, symbol) ==
  IF key \in DOMAIN signalState /\ symbol \in DOMAIN signalState[key]
    THEN signalState[key][symbol] ELSE DefaultSignal

\* the rows of a snapshot for a symbol
RowsOf(rows, symbol) == { rows[i] : i \in { j \in 1..Len(rows) : rows[j].symbol = symbol } }

\* C12 as stated: whenever a config is recomputed at a version, for every
\* symbol that has a row in that version and in the version written just
\* before it, the prevLtp the recomputation reads equals the symbol's ltp in
\* the earlier version.
C12_PrevLtpOfPreviousVersion ==
  [][\A key \in DashConfigs :
       Recomputed(key) =>
         \A i \in 1..Len(derivedCache'.byConfig[key].allRows) :
           LET r == derivedCache'.byConfig[key].allRows[i]
           IN  \A p \in RowsOf(priorData.rows, r.symbol) :
                 UsedPrev(key, r.symbol).prevLtp = p.ltp]_vars

\* C12, amended: the prevLtp a recomputation reads for a symbol is the ltp of
\* the symbol at the config's previous recomputation (none when that run did
\* not derive the symbol): the state retained after a recomputation holds the
\* ltp of every row it derived and nothing else, only a recomputation of the
\* config changes it, and the ltp_jump of a new row is measured from it.  It
\* is the ltp of the previous version when the config derived the symbol at
\* that version.
C12_PrevLtpOfPreviousRun ==
  /\ [](\A key \in DOMAIN derivedCache.byConfig :
          LET rows == derivedCache.byConfig[key].allRows
          IN  /\ key \in DOMAIN signalState
              /\ DOMAIN signalState[key] = { rows[i].symbol : i \in 1..Len(rows) }
              /\ \A i \in 1..Len(rows) :
                   signalState[key][rows[i].symbol].prevLtp = rows[i].ltp)
  /\ [][\A key \in DOMAIN signalState' :
          (key \notin DOMAIN signalState \/ signalState'[key] # signalState[key])
            => Recomputed(key)]_vars
  /\ [][\A key \in DashConfigs :
          Recomputed(key) =>
            \A i \in 1..Len(derivedCache'.byConfig[key].allRows) :
              LET r == derivedCache'.byConfig[key].allRows[i]
                  used == UsedPrev(key, r.symbol)
              IN  /\ r.ltp_jump = (IF used.prevLtp = NULL THEN 0
                                   ELSE Abs(r.ltp - used.prevLtp))
                  /\ \A p \in RowsOf(priorData.rows, r.symbol) :
                       used.prevVolume = p.volume => used.prevLtp = p.ltp]_vars

\* a config recomputed at two consecutive versions with a symbol whose ltp
\* differs between them
C12_Witness ==
  /\ derivedCache.snapshotMtimeMs >= 2
  /\ \E key \in DOMAIN derivedCache.byConfig :
       \E i \in 1..Len(derivedCache.byConfig[key].allRows) :
         LET r == derivedCache.byConfig[key].allRows[i]
         IN  /\ r.volume_delta = 10
             /\ r.ltp_jump > 0
             /\ \E p \in RowsOf(priorData.rows, r.symbol) : Abs(r.ltp - p.ltp) = r.ltp_jump

\* the numeric guard of the loop fails for a base row
FailsGuard(row, timeframe) ==
  toNum(row.ltp) = NULL \/ toNum(row[TF_CLOSE_FIELD[timeframe]]) = NULL

\* C13: when a config is recomputed, a base row that fails the numeric guard
\* yields no derived row, and the signal-state entry the config holds for the
\* row's symbol is kept as it is.
C13_GuardKeepsSignalState ==
  [][\A key \in DashConfigs :
       Recomputed(key) =>
         \A i \in 1..Len(snapshotCache'.data.rows) :
           LET row == snapshotCache'.data.rows[i]
               item == derivedCache'.byConfig[key]
           IN  FailsGuard(row, key[1]) =>
                 /\ RowsOf(item.allRows, row.symbol) = {}
                 /\ RowsOf(item.triggerRows, row.symbol) = {}
                 /\ (key \in DOMAIN signalState /\ row.symbol \in DOMAIN signalState[key]) =>
                      /\ row.symbol \in DOMAIN signalState'[key]
                      /\ signalState'[key][row.symbol] = signalState[key][row.symbol]]_vars

\* C14: a recomputation for a config leaves in the config's signal state
\* entries only for symbols of the base rows it ran on, none when the
\* snapshot has no rows; and every entry held for a cached config was stored
\* by the run at the cache's version.
C14_UnseenEvicted ==
  /\ [][\A key \in DashConfigs :
          Recomputed(key) =>
            /\ key \in DOMAIN signalState'
            /\ \A symbol \in DOMAIN signalState'[key] :
                 RowsOf(snapshotCache'.data.rows, symbol) # {}
            /\ snapshotCache'.data.rows = << >> => signalState'[key] = EmptyMap]_vars
  /\ [](\A key \in DOMAIN derivedCache.byConfig :
          \A symbol \in DOMAIN signalState[key] :
            signalState[key][symbol].prevVolume = 10 * derivedCache.snapshotMtimeMs)

\* the paper config has been recomputed on a snapshot without rows, right
\* after the version at which the paper cycle derived a row
C14_Witness ==
  /\ snapshotCache.data.rows = << >>
  /\ derivedCache.snapshotMtimeMs = snapshotCache.mtimeMs
  /\ PaperKey \in DOMAIN derivedCache.byConfig
  /\ signalState[PaperKey] = EmptyMap
  /\ lastSnapshotMtime = derivedCache.snapshotMtimeMs - 1
  /\ \E i \in 1..Len(priorData.rows) : priorData.rows[i].ltp # NULL

\* the signal state a recomputation of key starts from
StateOf(key) == IF key \in DOMAIN signalState THEN signalState[key] ELSE EmptyMap

\* recomputeDerivedForConfig called for key on the rows of the snapshot file,
\* starting from the signal state cfgState
CallOn(key, cfgState) ==
  recomputeDerivedForConfig(snapshotFile.data.rows, key[1], key[2], cfgState, now)

\* the call after a call, with the same arguments
CallAgain(key, call) == CallOn(key, call.cfgState)

\* the fields of a derived row that are computed from the base row alone
StaticFields ==
  BaseFields \cup
  {"close", "points", "selected_factor", "factor_reason", "bu1", "bu2", "bu3", "bu4", "bu5",
   "be1", "be2", "be3", "be4", "be5", "near_name", "near_value", "near_diff", "near_pct",
   "in_range_up", "in_range_down", "in_range", "sideways", "trend", "confirmation",
   "up_break_count", "down_break_count", "rr_to_bu5", "jackpot_retest", "jackpot_short",
   "above_bu1", "below_be1", "above_bu5", "below_be5"}

StaticOf(r) == [f \in StaticFields |-> r[f]]

\* C15 as stated: from every state of the server, two successive calls of
\* recomputeDerivedForConfig on the same base rows, timeframe and factor
\* return the same derived rows.
C15_SuccessiveCallsIdentical ==
  \A key \in DashConfigs :
    CallAgain(key, CallOn(key, StateOf(key))).item = CallOn(key, StateOf(key)).item

\* what two successive calls do have in common, and the third call
SecondCallOf(key, first, second) ==
  /\ Len(second.item.allRows) = Len(first.item.allRows)
  /\ \A i \in 1..Len(first.item.allRows) :
       /\ StaticOf(second.item.allRows[i]) = StaticOf(first.item.allRows[i])
       /\ second.item.allRows[i].volume_delta = 0
       /\ second.item.allRows[i].volume_accel = Rat(0, 1)
       /\ second.item.allRows[i].ltp_jump = 0
       /\ ~second.item.allRows[i].spike_flag
  /\ CallAgain(key, second) = second

\* C15, amended: the rows depend on the signal state the first call leaves.
\* The second of two successive calls on the same base rows repeats the
\* fields computed from the base row alone and has volume_delta 0,
\* volume_accel 0, ltp_jump 0 and no spike flag, whatever the first call
\* returned; every further call returns the rows of the second.
C15_SecondCallMeasuresNoMotion ==
  \A key \in DashConfigs :
    SecondCallOf(key, CallOn(key, StateOf(key)), CallAgain(key, CallOn(key, StateOf(key))))

\* a first call that measures a volume delta and an ltp jump
C15_Witness ==
  \E key \in DashConfigs :
    \E i \in 1..Len(CallOn(key, StateOf(key)).item.allRows) :
      /\ CallOn(key, StateOf(key)).item.allRows[i].volume_delta > 0
      /\ CallOn(key, StateOf(key)).item.allRows[i].ltp_jump > 0

(***************************************************************************)
(* Properties of the governor and of the trade records.                    *)
(***************************************************************************)
\* the trades entered during the governor's day `day`
EnteredOn(day) == { i \in TradeIds : UTCDay(paper_trades[i].entry_ts) = day }

\* C16: the orders_placed of a day's governor record is the number of trades
\* entered during that day, a record exists for every day with an entry, and
\* in every step the count of the current day grows by the number of trades
\* the step opens and no count shrinks.
C16_OrdersPlacedCountsEntries ==
  /\ [](/\ \A day \in DOMAIN broker_limits :
             broker_limits[day].orders_placed = Cardinality(EnteredOn(day))
        /\ \A i \in TradeIds : UTCDay(paper_trades[i].entry_ts) \in DOMAIN broker_limits)
  /\ [][/\ \A day \in DOMAIN broker_limits :
             /\ day \in DOMAIN broker_limits'
             /\ broker_limits'[day].orders_placed >= broker_limits[day].orders_placed
        /\ \A day \in DOMAIN broker_limits' :
             broker_limits'[day].orders_placed
               - (IF day \in DOMAIN broker_limits THEN broker_limits[day].orders_placed ELSE 0)
             = (IF day = UTCDay(now) THEN Len(paper_trades') - Len(paper_trades) ELSE 0)]_vars

\* two entries accepted in a day of which one trade is no longer open
C16_Witness ==
  \E day \in DOMAIN broker_limits :
    /\ broker_limits[day].orders_placed = 2
    /\ \E i \in EnteredOn(day) : paper_trades[i].status = "CLOSED"
    /\ \E i \in EnteredOn(day) : paper_trades[i].status = "OPEN"

\* the entry attempts of the last cycle that reached the governor
GovernorEvents == { i \in LogIdx : cycle.log[i].ev \in {"open", "blocked"} }

\* the trades that were OPEN, and opened during the current local calendar
\* day, when the governor of the last cycle was last evaluated: a trade the
\* evaluation let through is opened after it
OpenToday ==
  LET last == CHOOSE i \in GovernorEvents : \A j \in GovernorEvents : j <= i
  IN  { i \in TradeIds :
          /\ paper_trades[i].status = "OPEN"
          /\ ISTDay(paper_trades[i].entry_ts) = ISTDay(now)
          /\ ~(cycle.log[last].ev = "open" /\ i = Len(paper_trades)) }

RECURSIVE MarginOf(_)
MarginOf(ids) ==
  IF ids = {} THEN 0
  ELSE LET i == CHOOSE x \in ids : TRUE
       IN  paper_trades[i].entry_ltp * paper_trades[i].quantity + MarginOf(ids \ {i})

\* C17: after a cycle in which the governor was evaluated, the open_positions
\* it recorded is the number of trades that were OPEN and opened during the
\* current local calendar day at its last evaluation, and the margin_used it
\* recorded is the sum of entry_ltp x quantity over those trades.
C17_GovernorCountsLocalDay ==
  GovernorEvents # {} =>
    /\ UTCDay(now) \in DOMAIN broker_limits
    /\ broker_limits[UTCDay(now)].open_positions = Cardinality(OpenToday)
    /\ broker_limits[UTCDay(now)].margin_used = MarginOf(OpenToday)

\* the running metrics of a trade record are consistent
MetricsInOrder(tr) ==
  /\ tr.min_ltp <= tr.last_ltp
  /\ tr.last_ltp <= tr.max_ltp
  /\ tr.min_ltp <= tr.entry_ltp
  /\ tr.entry_ltp <= tr.max_ltp
  /\ tr.runup >= 0
  /\ tr.drawdown >= 0

\* C18: every trade, as persisted and as held in the open-trade map, has
\* min_ltp <= last_ltp <= max_ltp, runup >= 0 and drawdown >= 0 after entry,
\* after every management pass and after its close; and no step lowers the
\* max_ltp or raises the min_ltp of a trade.
C18_MaxMinTracking ==
  /\ [](/\ \A i \in TradeIds : MetricsInOrder(paper_trades[i])
        /\ \A s \in DOMAIN openTrades :
             /\ MetricsInOrder(openTrades[s])
             /\ openTrades[s].max_ltp = paper_trades[openTrades[s].id].max_ltp
             /\ openTrades[s].min_ltp = paper_trades[openTrades[s].id].min_ltp
             /\ openTrades[s].last_ltp = paper_trades[openTrades[s].id].last_ltp)
  /\ [][\A i \in TradeIds :
          /\ i <= Len(paper_trades')
          /\ paper_trades'[i].max_ltp >= paper_trades[i].max_ltp
          /\ paper_trades'[i].min_ltp <= paper_trades[i].min_ltp]_vars

\* a trade whose last price lies strictly between its extremes, one of which
\* is not the entry price
C18_Witness ==
  \E i \in TradeIds :
    /\ paper_trades[i].min_ltp < paper_trades[i].last_ltp
    /\ paper_trades[i].last_ltp < paper_trades[i].max_ltp
    /\ paper_trades[i].runup > 0

\* the six persisted charge components of a trade record, summed
ComponentSum(tr) ==
  tr.brokerage + tr.stt + tr.exchange_charges + tr.sebi_charges + tr.stamp_duty + tr.gst

OptionContracts == {"NIFTY24DEC24000CE", "NIFTY24DEC24000PE"}

\* the trades the last cycle opened for a symbol
OpenedNow(symbol) ==
  { t \in TradeIds : paper_trades[t].symbol = symbol /\ paper_trades[t].entry_ts = now
                     /\ paper_trades[t].exit_ts = NULL }

\* the fields of a new trade that are copied from the row
LevelFields == {"bu1", "bu2", "bu3", "bu4", "bu5", "be1", "be2", "be3", "be4", "be5"}

\* C20: every entry the last cycle accepted created one trade for the row's
\* symbol, OPEN, in the store and in the open-trade map, with entry_ltp =
\* last_ltp = max_ltp = min_ltp = the row's ltp, runup = drawdown = pnl = 0,
\* sl_price = be1, tp_price = bu5, tsl_trigger = bu3, the trailing stop
\* inactive at be1, the row's ten levels, and quantity 50 when the instrument
\* is an option and 1 when it is not.
C20_EntryCreatesTrade ==
  \A i \in LogIdx :
    cycle.log[i].ev = "open" =>
      /\ Cardinality(OpenedNow(cycle.log[i].symbol)) = 1
      /\ \A t \in OpenedNow(cycle.log[i].symbol) :
           LET tr == paper_trades[t]
               r == PaperItem.allRows[RowIndex(PaperItem.allRows, tr.symbol)]
           IN  /\ tr.status = "OPEN"
               /\ tr.symbol \in DOMAIN openTrades
               /\ openTrades[tr.symbol].id = t
               /\ \A f \in DOMAIN openTrades[tr.symbol] : openTrades[tr.symbol][f] = tr[f]
               /\ tr.entry_ltp = r.ltp /\ tr.last_ltp = r.ltp
               /\ tr.max_ltp = r.ltp /\ tr.min_ltp = r.ltp
               /\ tr.runup = 0 /\ tr.drawdown = 0 /\ tr.pnl = 0
               /\ tr.sl_price = r.be1 /\ tr.tp_price = r.bu5 /\ tr.tsl_trigger = r.bu3
               /\ tr.tsl_active = 0 /\ tr.tsl_sl_price = r.be1
               /\ \A f \in LevelFields : tr[f] = r[f]
               /\ tr.quantity = (IF tr.tsym \in OptionContracts THEN 50 ELSE 1)

(***************************************************************************)
(* Properties of the trade attempt and of the derived rows (SpecSurvey).   *)
(***************************************************************************)
\* the row of the last trade attempt
AttemptRow(c) == c.log[1].info

\* the entry guard rejects the row: ltp or a level is missing, or ltp is
\* outside [bu1, bu5]
GuardRejects(row) ==
  \/ row.ltp = NULL \/ row.bu1 = NULL \/ row.bu5 = NULL
  \/ row.ltp < row.bu1 \/ row.ltp > row.bu5

\* the governor does not let an entry through
GovernorBlocks == ~getBrokerLimitsStatus(paper_trades, broker_limits, now).status.safe_to_trade

\* C21: a trade attempt on a row the entry guard rejects, or that the
\* governor blocks, returns false and leaves the trade store, the open-trade
\* map, the cooldowns and every day's orders_placed as they were.
C21_RefusedAttemptChangesNothing ==
  [][(cycle'.op = "attempt" /\ (GuardRejects(AttemptRow(cycle')) \/ GovernorBlocks)) =>
       /\ ~cycle'.ran
       /\ paper_trades' = paper_trades
       /\ openTrades' = openTrades
       /\ cooldownUntil' = cooldownUntil
       /\ \A d \in DOMAIN broker_limits' :
            broker_limits'[d].orders_placed =
              (IF d \in DOMAIN broker_limits THEN broker_limits[d].orders_placed ELSE 0)]_vars

\* an attempt on a row inside [bu1, bu5] was refused by the governor after
\* two entries of the day
C21_Witness ==
  /\ cycle.op = "attempt" /\ ~cycle.ran
  /\ ~GuardRejects(AttemptRow(cycle))
  /\ Len(paper_trades) = 2
  /\ AttemptRow(cycle).symbol \notin DOMAIN openTrades
  /\ UTCDay(now) \in DOMAIN broker_limits
  /\ broker_limits[UTCDay(now)].orders_placed = 2

\* the rows the derived cache holds for the configs with the smart selector
SmartRows ==
  UNION { { derivedCache.byConfig[key].allRows[k] :
              k \in 1..Len(derivedCache.byConfig[key].allRows) } :
          key \in { c \in DOMAIN derivedCache.byConfig : c[2] = "smart" } }

\* move% of a row is above k, move% = |ltp - close| / close x 100
MoveAbove(r, k) == Abs(r.ltp - r.close) * 100 > k * r.close

\* the factor the rules name for a row, first match in their order
RuleFactor(r) ==
  CASE r.exchange = "MCX" -> "mini"
    [] r.exchange # "MCX" /\ r.tsym \in IndexTsyms -> "micro"
    [] r.exchange # "MCX" /\ r.tsym \notin IndexTsyms
         /\ (r.exchange \in {"NFO", "BFO"} \/ r.tsym \in OptionSuffixTsyms) ->
           IF MoveAbove(r, 10) THEN "mega" ELSE IF MoveAbove(r, 5) THEN "mini" ELSE "micro"
    [] r.exchange # "MCX" /\ r.tsym \notin IndexTsyms
         /\ ~(r.exchange \in {"NFO", "BFO"} \/ r.tsym \in OptionSuffixTsyms)
         /\ r.tsym \in FutureTsyms ->
           IF MoveAbove(r, 3) THEN "mini" ELSE "micro"
    [] OTHER ->
           IF MoveAbove(r, 8) THEN "mega" ELSE IF MoveAbove(r, 3) THEN "mini" ELSE "micro"

\* C24: under the smart selector every row with a positive close is computed
\* with the factor of the first rule that matches it, in the order MCX,
\* index, option, future, equity, with strict thresholds on move%.
C24_SmartFactorRules ==
  \A r \in SmartRows :
    r.close > 0 =>
      /\ r.selected_factor = RuleFactor(r)
      /\ r.points = PointsOf(r.close, RuleFactor(r))

\* a future on NFO that has moved 4%: the option rule comes first and keeps
\* it on micro, where the future rule would select mini
C24_Witness ==
  \E r \in SmartRows :
    /\ r.exchange = "NFO" /\ r.tsym \in FutureTsyms
    /\ MoveAbove(r, 3) /\ ~MoveAbove(r, 5)
    /\ r.selected_factor = "micro"

\* the smart-selector rows of the equity INFY with close 1500
InfyRows == { r \in SmartRows : r.exchange = "NSE" /\ r.tsym = "INFY" /\ r.close = 15000000 }

\* the factor selected for every such row with the given ltp
InfySelects(ltp, factorName) ==
  \A r \in InfyRows : r.ltp = ltp => r.selected_factor = factorName

\* C25: INFY with close 1500 under the smart selector: ltp 1545, 1560 and
\* 1570 each select micro, ltp 1600 selects mini and ltp 1700 selects mega.
C25_InfyScenario ==
  /\ InfySelects(15450000, "micro")
  /\ InfySelects(15600000, "micro")
  /\ InfySelects(15700000, "micro")
  /\ InfySelects(16000000, "mini")
  /\ InfySelects(17000000, "mega")

\* C25 as amended: ltp 1545 (3.0%) selects micro, ltp 1560 (4%), 1570 (4.67%)
\* and 1600 (6.67%) select mini, and ltp 1700 (13.33%) selects mega.
C25_InfyScenarioAmended ==
  /\ InfySelects(15450000, "micro")
  /\ InfySelects(15600000, "mini")
  /\ InfySelects(15700000, "mini")
  /\ InfySelects(16000000, "mini")
  /\ InfySelects(17000000, "mega")

\* the row of INFY at 1560 has been computed, with the mini levels of 1500
C25_Witness ==
  \E r \in InfyRows :
    /\ r.ltp = 15600000
    /\ r.selected_factor = "mini"
    /\ r.points = 391500
    /\ r.trend = "UP" /\ r.confirmation = 1

\* the configs of the derived cache with a fixed factor
FixedKeys == { c \in DOMAIN derivedCache.byConfig : c[2] # "smart" }

\* the rows the derived cache holds for a config
RowsUnder(key) ==
  { derivedCache.byConfig[key].allRows[k] : k \in 1..Len(derivedCache.byConfig[key].allRows) }

\* the row is computed with the factor: points = close x factor (the closes
\* are whole millions of units and the factors parts per million), and the
\* first levels are one point away from the close
ComputedWith(r, factorName) ==
  /\ r.selected_factor = factorName
  /\ r.close % 1000000 = 0
  /\ r.points = (r.close \div 1000000) * FACTORS[factorName]
  /\ r.bu1 = r.close + r.points /\ r.be1 = r.close - r.points

\* C26: under a config with a fixed factor every row that is not on MCX is
\* computed with the configured factor, and every MCX row with mini.
C26_FixedFactor ==
  \A key \in FixedKeys : \A r \in RowsUnder(key) :
    IF r.exchange = "MCX" THEN ComputedWith(r, "mini") ELSE ComputedWith(r, key[2])

\* an MCX row and a row of another exchange computed under the mega config
C26_Witness ==
  \E key \in FixedKeys :
    /\ key[2] = "mega"
    /\ \E r \in RowsUnder(key) : r.exchange = "MCX" /\ r.points = 391500
    /\ \E r \in RowsUnder(key) : r.exchange = "NSE" /\ r.points = 3916500

\* every row the derived cache holds, under whatever config
EmittedRows == UNION { RowsUnder(key) : key \in DOMAIN derivedCache.byConfig }

\* the ladder of a row is strictly increasing from be5 to bu5
StrictLadder(r) ==
  /\ r.be5 < r.be4 /\ r.be4 < r.be3 /\ r.be3 < r.be2 /\ r.be2 < r.be1
  /\ r.be1 < r.close /\ r.close < r.bu1
  /\ r.bu1 < r.bu2 /\ r.bu2 < r.bu3 /\ r.bu3 < r.bu4 /\ r.bu4 < r.bu5

\* C27: the levels of every emitted row are strictly ordered,
\* be5 < be4 < be3 < be2 < be1 < close < bu1 < bu2 < bu3 < bu4 < bu5.
C27_LevelsOrdered == \A r \in EmittedRows : StrictLadder(r)

\* the BU levels at or below ltp, and the BE levels at or above it
LevelsBelow(r) ==
  Cardinality({ f \in {"bu1", "bu2", "bu3", "bu4", "bu5"} : r[f] <= r.ltp })

LevelsAbove(r) ==
  Cardinality({ f \in {"be1", "be2", "be3", "be4", "be5"} : r[f] >= r.ltp })

\* C28: every emitted row has one trend: UP iff ltp >= bu1, DOWN iff
\* ltp <= be1 and not UP, SIDEWAYS otherwise; its confirmation is the number
\* of BU levels at or below ltp when UP, of BE levels at or above ltp when
\* DOWN, and 0 when SIDEWAYS.
C28_TrendPartition ==
  \A r \in EmittedRows :
    /\ r.trend \in {"UP", "DOWN", "SIDEWAYS"}
    /\ r.trend = "UP" <=> r.ltp >= r.bu1
    /\ r.trend = "DOWN" <=> (r.ltp <= r.be1 /\ ~(r.ltp >= r.bu1))
    /\ r.trend = "SIDEWAYS" <=> (r.ltp > r.be1 /\ r.ltp < r.bu1)
    /\ r.trend = "UP" => r.confirmation = LevelsBelow(r)
    /\ r.trend = "DOWN" => r.confirmation = LevelsAbove(r)
    /\ r.trend = "SIDEWAYS" => r.confirmation = 0

\* a row exactly on its be1 under one config (DOWN, confirmation 1) is
\* between be1 and bu1 under another (SIDEWAYS, confirmation 0)
C28_Witness ==
  \E r, q \in EmittedRows :
    /\ r.symbol = q.symbol /\ r.ltp = q.ltp
    /\ r.points > 0 /\ r.ltp = r.be1 /\ r.trend = "DOWN" /\ r.confirmation = 1
    /\ q.trend = "SIDEWAYS" /\ q.confirmation = 0

\* a sequence of rows is in ascending order of (symbol, tsym)
Ascending(rows) ==
  \A i, j \in 1..Len(rows) :
    i < j =>
      \/ StrRank[rows[i].symbol] < StrRank[rows[j].symbol]
      \/ /\ rows[i].symbol = rows[j].symbol
         /\ StrRank[rows[i].tsym] <= StrRank[rows[j].tsym]

\* the positions of allRows that hold a trigger
TriggerPositions(item) ==
  { k \in 1..Len(item.allRows) : item.allRows[k].in_range_up /\ ~item.allRows[k].sideways }

\* C29: in every cached item triggerRows holds exactly the rows of allRows
\* with in_range_up and not sideways, each once, and allRows and triggerRows
\* are in ascending order of (symbol, tsym).
C29_TriggerSubsetSorted ==
  \A key \in DOMAIN derivedCache.byConfig :
    LET item == derivedCache.byConfig[key]
    IN  /\ { item.triggerRows[k] : k \in 1..Len(item.triggerRows) }
             = { item.allRows[k] : k \in TriggerPositions(item) }
        /\ Len(item.triggerRows) = Cardinality(TriggerPositions(item))
        /\ Ascending(item.allRows)
        /\ Ascending(item.triggerRows)

\* an item computed from a snapshot whose rows were not in symbol order, with
\* a row that is no trigger between two that are
C29_Witness ==
  \E key \in DOMAIN derivedCache.byConfig :
    LET item == derivedCache.byConfig[key]
        base == snapshotCache.data.rows
    IN  /\ derivedCache.snapshotMtimeMs = snapshotCache.mtimeMs
        /\ Len(base) >= 3 /\ Len(item.allRows) = Len(base)
        /\ StrRank[base[1].symbol] > StrRank[base[Len(base)].symbol]
        /\ Len(item.triggerRows) >= 2
        /\ Len(item.triggerRows) < Len(item.allRows)

(***************************************************************************)
(* Properties of the management pass (SpecEngine).                         *)
(***************************************************************************)
\* the reason of the first exit rule that matches a trade, or "none": the
\* trade tr as the pass has updated it, ltp and spike of its row (ltp is
\* NULL when the processed version has no row, or no ltp, for the symbol)
FirstExitRule(tr, ltp, spike, t) ==
  IF tr.exchange \in DOMAIN MARKET_CLOSE /\ ISTSecondsOfDay(t) >= MARKET_CLOSE[tr.exchange]
    THEN "market_close_auto"
  ELSE IF ltp = NULL THEN "none"
  ELSE IF ltp >= tr.bu5 THEN "target_bu5"
  ELSE IF tr.tsl_active # 0 /\ ltp < tr.tsl_sl_price THEN "trailing_sl"
  ELSE IF tr.tsl_active = 0 /\ ltp < tr.bu1 THEN "sl_below_bu1"
  ELSE IF spike /\ ltp < tr.entry_ltp THEN "spike_protection"
  ELSE "none"

\* what a cycle that ran its passes did to the trade that was open for s:
\* closed at most once, and as the first matching rule says
ExitAsRuled(s, item, log, trades, open, t) ==
  LET id == openTrades[s].id
      k == RowIndex(item.allRows, s)
      ltp == IF k = 0 THEN NULL ELSE item.allRows[k].ltp
      spike == IF k = 0 THEN FALSE ELSE item.allRows[k].spike_flag
      rule == FirstExitRule(trades[id], ltp, spike, t)
      closes == { i \in 1..Len(log) : log[i].ev = "close" /\ log[i].symbol = s }
  IN  /\ Cardinality(closes) <= 1
      /\ IF rule = "none"
           THEN closes = {} /\ trades[id].status = "OPEN" /\ s \in DOMAIN open
           ELSE /\ \E i \in closes : log[i].info = rule
                /\ trades[id].status = "CLOSED" /\ trades[id].reason = rule
                /\ (s \in DOMAIN open => open[s].id # id)

\* C30: a cycle that runs the management pass closes each trade that was
\* OPEN at most once, with the reason of the first rule that matches in the
\* order market close, target bu5, stop (trailing_sl or sl_below_bu1), spike
\* protection; a trade that no rule matches stays OPEN.
C30_ExitOrder ==
  [][(cycle'.op = "cycle" /\ cycle'.ran) =>
       \A s \in DOMAIN openTrades :
         ExitAsRuled(s, PaperItem', cycle'.log, paper_trades', openTrades', now)]_vars

(***************************************************************************)
(* Properties of the engine under faults (SpecFaults).                     *)
(***************************************************************************)
\* the file cannot be read: it is away, or its text does not parse
Unreadable(file) == ~file.exists \/ ~file.valid

\* the loader's cache after a failed read
EmptyCache == [mtimeMs |-> NO_MTIME, data |-> EmptySnapshot]

\* C23: when the snapshot file is missing or does not parse, the load gives
\* the snapshot without rows and version -1, and a paper cycle run then
\* changes no trade, no cooldown and not the last-processed version; when
\* the file can be read, the loader serves the content of the file.
C23_UnreadableSnapshot ==
  [][cycle'.op = "cycle" =>
       IF Unreadable(snapshotFile)
         THEN /\ snapshotCache' = EmptyCache
              /\ ~cycle'.ran
              /\ cycle'.log = << >>
              /\ UNCHANGED <<openTrades, cooldownUntil, lastSnapshotMtime, paper_trades>>
         ELSE /\ snapshotCache'.mtimeMs = snapshotFile.mtimeMs
              /\ snapshotCache'.data = snapshotFile.data]_vars

\* a cycle has run without a readable file while a trade is open and the
\* version the engine processed last is still the one before the outage
C23_Witness ==
  /\ cycle.op = "cycle"
  /\ Unreadable(snapshotFile)
  /\ snapshotCache = EmptyCache
  /\ DOMAIN openTrades # {}
  /\ lastSnapshotMtime > 0


\* the trades a step closed
ClosedNow == { s \in DOMAIN openTrades : s \notin DOMAIN openTrades' }

\* the persisted row of trade tr says what the engine holds of it in memory
RowFollows(row, tr) ==
  /\ row.symbol = tr.symbol
  /\ row.status = "OPEN"
  /\ row.entry_ltp = tr.entry_ltp
  /\ row.last_ltp = tr.last_ltp
  /\ row.max_ltp = tr.max_ltp
  /\ row.min_ltp = tr.min_ltp

\* the row was written by the full statement
RowFull(row, tr) ==
  /\ row.sl_price = tr.sl_price
  /\ row.tp_price = tr.tp_price
  /\ row.tsl_trigger = tr.tsl_trigger
  /\ row.tsl_active = tr.tsl_active
  /\ row.tsl_sl_price = tr.tsl_sl_price
  /\ row.max_profit_points = tr.max_profit_points

\* C22: when the table lacks a column a trade's insert or update names, the
\* engine migrates the schema, retries the full statement once and falls
\* back to the minimal columns only if the retry fails too; the opening,
\* update or close of the trade is persisted in every case, and no error
\* reaches the caller.  Stated of a paper cycle over a new version: no
\* exception leaves it; every trade open after it has an OPEN row with the
\* prices the engine holds; every trade it closed has a CLOSED row; and when
\* the table has all its columns after the cycle, those rows hold what the
\* full statements write.
C22_SchemaDrift ==
  [][(cycle'.op = "cycle" /\ cycle'.ran) =>
       /\ ~Thrown(cycle'.log)
       /\ \A s \in DOMAIN openTrades' :
            /\ openTrades'[s].id \in 1..Len(paper_trades')
            /\ RowFollows(paper_trades'[openTrades'[s].id], openTrades'[s])
            /\ schema'.missing = {} =>
                 RowFull(paper_trades'[openTrades'[s].id], openTrades'[s])
       /\ \A s \in ClosedNow :
            /\ paper_trades'[openTrades[s].id].status = "CLOSED"
            /\ paper_trades'[openTrades[s].id].exit_ts = now
            /\ schema'.missing = {} => paper_trades'[openTrades[s].id].net_pnl # NULL]_vars


(***************************************************************************)
(* Properties of a trade's life under the trailing stop (SpecLadder).      *)
(***************************************************************************)
\* the step is a paper cycle that ran its passes
CycleRan == cycle'.op = "cycle" /\ cycle'.ran

\* the cycle's management pass reached the trade open for s: it had a row
\* with an ltp
Passed(s) == \E k \in 1..Len(cycle'.log) : cycle'.log[k].ev = "update" /\ cycle'.log[k].symbol = s

\* the reasons the cycle closed trades of s with
CloseReasons(s) ==
  { cycle'.log[k].info : k \in { j \in 1..Len(cycle'.log) :
                                   cycle'.log[j].ev = "close" /\ cycle'.log[j].symbol = s } }

\* the row of the trade that was open for s, after the step
RowAfter(s) == paper_trades'[openTrades[s].id]

\* what a cycle did to the trailing stop of the trade tr open for s, whose
\* row is r afterwards
LadderStep(s, tr, r) ==
  /\ r.tsl_active # tr.tsl_active => tr.tsl_active = 0 /\ r.tsl_active = 1
  /\ ~Passed(s) => r.tsl_active = tr.tsl_active /\ r.tsl_sl_price = tr.tsl_sl_price
  /\ Passed(s) =>
       /\ (tr.tsl_active = 0 /\ r.tsl_active = 1) <=> (tr.tsl_active = 0 /\ r.last_ltp >= tr.bu3)
       /\ (tr.tsl_active = 0 /\ r.last_ltp >= tr.bu3 /\ r.last_ltp < tr.bu4)
             => r.tsl_sl_price = tr.be1
       /\ (r.tsl_active = 1 /\ r.last_ltp >= tr.bu4 /\ r.last_ltp < tr.bu5)
             => r.tsl_sl_price = tr.bu1
       /\ r.last_ltp >= tr.bu5 => r.tsl_active = 1 /\ r.tsl_sl_price = tr.bu2
       /\ r.last_ltp < tr.bu4 /\ tr.tsl_active = 1 => r.tsl_sl_price = tr.tsl_sl_price

\* C31: tsl_active changes only from false to true, on the first management
\* pass with ltp >= bu3, which sets tsl_sl_price to be1; while active, a pass
\* with ltp >= bu4 raises tsl_sl_price to bu1 and one with ltp >= bu5 to bu2;
\* a trade whose tsl_sl_price was raised to bu1 is closed with the reason
\* trailing_sl on the first later pass with ltp < bu1.
C31_TslLadder ==
  [][CycleRan =>
       \A s \in DOMAIN openTrades :
         /\ LadderStep(s, openTrades[s], RowAfter(s))
         /\ (openTrades[s].tsl_sl_price = openTrades[s].bu1 /\ Passed(s)
               /\ RowAfter(s).last_ltp < openTrades[s].bu1)
              => CloseReasons(s) = {"trailing_sl"}]_vars

\* C31 as it holds: the same, the close of the raised trade being booked as
\* market_close_auto when the pass runs at or after the market close of the
\* trade's exchange, and as trailing_sl before it.
C31_TslLadderAmended ==
  [][CycleRan =>
       \A s \in DOMAIN openTrades :
         /\ LadderStep(s, openTrades[s], RowAfter(s))
         /\ (openTrades[s].tsl_sl_price = openTrades[s].bu1 /\ Passed(s)
               /\ RowAfter(s).last_ltp < openTrades[s].bu1)
              => /\ RowAfter(s).status = "CLOSED"
                 /\ CloseReasons(s) = {IF shouldAutoClose(openTrades[s].exchange, now)
                                         THEN "market_close_auto" ELSE "trailing_sl"}]_vars

\* the trade entered at 100.90 was activated, raised to bu1 at 101.10 and is
\* closed by the cycle on the sixth snapshot, at 100.20, as trailing_sl
C31_Witness ==
  /\ cycle.op = "cycle" /\ cycle.ran /\ cycle.version = MaxLadderVersion
  /\ \E k \in 1..Len(cycle.log) : cycle.log[k].ev = "close" /\ cycle.log[k].info = "trailing_sl"
  /\ Len(paper_trades) = 1
  /\ paper_trades[1].entry_ltp = EntryLtp
  /\ paper_trades[1].status = "CLOSED"
  /\ paper_trades[1].tsl_active = 1
  /\ paper_trades[1].tsl_sl_price = paper_trades[1].bu1
  /\ paper_trades[1].max_ltp = 1011000
  /\ paper_trades[1].exit_ltp = 1002000
  /\ priorData.rows[1].ltp = 1011000

\* the price below which the stop rule closes a trade
StopOf(tr) == IF tr.tsl_active # 0 THEN tr.tsl_sl_price ELSE tr.bu1

\* the cycle closed the trade of s by the stop rule
StoppedOut(s) == CloseReasons(s) \cap {"trailing_sl", "sl_below_bu1"} # {}

\* the stop rule decides: a pass before the market close with ltp below bu5
\* closes the trade by the stop rule exactly when ltp is below the stop
StopDecides(s, tr, r) ==
  (Passed(s) /\ ~shouldAutoClose(tr.exchange, now) /\ r.last_ltp < tr.bu5)
     => (StoppedOut(s) <=> r.last_ltp < StopOf(r))

\* C34: the price below which an OPEN trade is stopped out (bu1 while the
\* trailing stop is inactive, tsl_sl_price once it is active) never decreases
\* in a cycle.
C34_StopNeverDecreases ==
  [][CycleRan =>
       \A s \in DOMAIN openTrades :
         /\ StopDecides(s, openTrades[s], RowAfter(s))
         /\ StopOf(RowAfter(s)) >= StopOf(openTrades[s])]_vars

\* C34 as it holds: the stop decreases in one pass only, the one that
\* activates the trailing stop with ltp below bu4, where it falls from bu1 to
\* be1; in every other cycle, and in every cycle once the trailing stop is
\* active, it does not decrease.
C34_StopFallsOnlyAtActivation ==
  [][CycleRan =>
       \A s \in DOMAIN openTrades :
         /\ StopDecides(s, openTrades[s], RowAfter(s))
         /\ openTrades[s].tsl_active # 0 => StopOf(RowAfter(s)) >= StopOf(openTrades[s])
         /\ StopOf(RowAfter(s)) < StopOf(openTrades[s]) =>
              /\ Passed(s)
              /\ openTrades[s].tsl_active = 0 /\ RowAfter(s).tsl_active = 1
              /\ StopOf(openTrades[s]) = openTrades[s].bu1
              /\ StopOf(RowAfter(s)) = openTrades[s].be1
              /\ RowAfter(s).last_ltp >= openTrades[s].bu3
              /\ RowAfter(s).last_ltp < openTrades[s].bu4
         /\ (Passed(s) /\ openTrades[s].tsl_active = 0
               /\ RowAfter(s).last_ltp >= openTrades[s].bu3
               /\ RowAfter(s).last_ltp < openTrades[s].bu4)
              => StopOf(RowAfter(s)) < StopOf(openTrades[s])]_vars

\* a trade activated at 100.80 stays OPEN at 100.20, below its bu1 and above
\* the be1 its stop fell to
C34_Witness ==
  \E s \in DOMAIN openTrades :
    /\ openTrades[s].tsl_active = 1
    /\ openTrades[s].tsl_sl_price = openTrades[s].be1
    /\ openTrades[s].max_ltp = 1008000
    /\ openTrades[s].last_ltp = 1002000
    /\ openTrades[s].last_ltp < openTrades[s].bu1
    /\ paper_trades[openTrades[s].id].status = "OPEN"

\* the trades the cycle's management pass updated
UpdatedIds == { openTrades[s].id : s \in { x \in DOMAIN openTrades : Passed(x) } }

\* C35: after a paper cycle, every trade it updated that is still OPEN has
\* stop <= last_ltp < bu5 by its stored levels (stop = tsl_sl_price if
\* tsl_active, else bu1) and is still in the open-trade map; every trade the
\* cycle opened has bu1 <= entry_ltp < bu5; and a trade whose tsl_sl_price
\* the cycle raised to bu2 is no longer OPEN.
C35_OpenWithinBand ==
  [][CycleRan =>
       /\ \A i \in UpdatedIds :
            LET r == paper_trades'[i]
            IN  /\ r.status = "OPEN" =>
                     /\ StopOf(r) <= r.last_ltp
                     /\ r.last_ltp < r.bu5
                     /\ r.symbol \in DOMAIN openTrades'
                     /\ openTrades'[r.symbol].id = i
                /\ (r.tsl_sl_price = r.bu2 /\ paper_trades[i].tsl_sl_price < r.bu2) =>
                     /\ r.status = "CLOSED"
                     /\ (r.symbol \in DOMAIN openTrades' => openTrades'[r.symbol].id # i)
       /\ \A i \in (Len(paper_trades) + 1)..Len(paper_trades') :
            LET r == paper_trades'[i]
            IN  /\ r.status = "OPEN"
                /\ r.bu1 <= r.entry_ltp
                /\ r.entry_ltp < r.bu5]_vars

\* the cycle raised the stop of the trade to bu2 at 101.3055 and closed it
\* at the target
C35_Witness ==
  /\ cycle.op = "cycle" /\ cycle.ran
  /\ \E k \in 1..Len(cycle.log) : cycle.log[k].ev = "close" /\ cycle.log[k].info = "target_bu5"
  /\ openTrades = EmptyMap
  /\ Len(paper_trades) = 1
  /\ paper_trades[1].status = "CLOSED"
  /\ paper_trades[1].tsl_sl_price = paper_trades[1].bu2
  /\ paper_trades[1].exit_ltp = paper_trades[1].bu5
  /\ paper_trades[1].max_ltp = 1011000 + 2055

(***************************************************************************)
(* Properties of the open-trade map and of the governor's limit            *)
(* (SpecLocks, SpecDays).                                                  *)
(***************************************************************************)
\* the symbols that have a persisted trade with status OPEN
PersistedOpen ==
  { paper_trades[i].symbol : i \in { j \in 1..Len(paper_trades) : paper_trades[j].status = "OPEN" } }

\* the last step was a paper cycle that ran to its end
CycleCompleted == cycle.op = "cycle" /\ ~Thrown(cycle.log)

\* C36: after every completed paper cycle, the symbols of the open-trade map
\* are the symbols that have a persisted trade with status OPEN, also when a
\* write of the cycle failed.
C36_MapMatchesTable == CycleCompleted => DOMAIN openTrades = PersistedOpen

\* the trades that are OPEN
OpenIds == { i \in 1..Len(paper_trades) : paper_trades[i].status = "OPEN" }

\* C37: the number of paper trades that are OPEN at the same time never
\* exceeds max_open_positions.
C37_OpenWithinLimit ==
  /\ Cardinality(OpenIds) <= MAX_OPEN_POSITIONS
  /\ Cardinality(DOMAIN openTrades) <= MAX_OPEN_POSITIONS

(***************************************************************************)
(* Properties of the management pass (SpecEngine).                         *)
(***************************************************************************)
\* the processed version emits no derived row for the symbol
NoRowFor(s) == RowIndex(PaperItem'.allRows, s) = 0

\* the symbol is absent from the snapshot, or its rows fail the numeric guard
AbsentOrGuarded(s) ==
  \A row \in RowsOf(snapshotCache'.data.rows, s) : FailsGuard(row, PAPER_TF)

\* the cycle logged something about the symbol
Logged(s) == \E k \in 1..Len(cycle'.log) : cycle'.log[k].symbol = s

EntryTimeFields ==
  LevelFields \cup {"points", "entry_ltp", "quantity", "sl_price", "tp_price", "tsl_trigger"}

EntryTimeOf(tr) == [f \in EntryTimeFields |-> tr[f]]

\* the derived row of the processed version for the symbol
CurrentRow(s) == PaperItem'.allRows[RowIndex(PaperItem'.allRows, s)]

\* the decisions of a pass at ltp, by the levels stored in the trade tr
DecidedByStored(s, tr, r) ==
  /\ (tr.tsl_active = 0 /\ r.tsl_active = 1) <=> (tr.tsl_active = 0 /\ r.last_ltp >= tr.tsl_trigger)
  /\ r.tsl_sl_price \in {tr.tsl_sl_price, tr.be1, tr.bu1, tr.bu2}
  /\ ~shouldAutoClose(tr.exchange, now) =>
       /\ "target_bu5" \in CloseReasons(s) <=> r.last_ltp >= tr.bu5
       /\ r.last_ltp < tr.bu5 => (StoppedOut(s) <=> r.last_ltp < StopOf(r))
       /\ "spike_protection" \in CloseReasons(s)
            <=> /\ r.last_ltp < tr.bu5 /\ r.last_ltp >= StopOf(r)
                /\ CurrentRow(s).spike_flag /\ r.last_ltp < tr.entry_ltp

\* C39: a cycle leaves the entry-time fields of every OPEN trade as they are
\* (bu1..bu5, be1..be5, points, entry_ltp, quantity, sl_price, tp_price,
\* tsl_trigger), in the table and in the map, and the activation of the
\* trailing stop, its steps and the exits of a pass compare the ltp with the
\* levels stored in the trade, whatever the levels of the symbol's current
\* derived row.
C39_EntryFieldsFixed ==
  [][CycleRan =>
       \A s \in DOMAIN openTrades :
         /\ EntryTimeOf(RowAfter(s)) = EntryTimeOf(paper_trades[openTrades[s].id])
         /\ EntryTimeOf(RowAfter(s)) = EntryTimeOf(openTrades[s])
         /\ (s \in DOMAIN openTrades' /\ openTrades'[s].id = openTrades[s].id)
              => EntryTimeOf(openTrades'[s]) = EntryTimeOf(openTrades[s])
         /\ Passed(s) => DecidedByStored(s, openTrades[s], RowAfter(s))]_vars

\* a trade entered on micro levels is closed at its stored bu5 by a pass at
\* 106.00, where the smart selector has picked mini and the row's bu5 is not
\* reached
C39_Witness ==
  /\ cycle.op = "cycle" /\ cycle.ran
  /\ \E k \in 1..Len(cycle.log) :
       /\ cycle.log[k].ev = "close" /\ cycle.log[k].info = "target_bu5"
       /\ \E i \in TradeIds, j \in 1..Len(PaperItem.allRows) :
            /\ paper_trades[i].symbol = cycle.log[k].symbol
            /\ PaperItem.allRows[j].symbol = cycle.log[k].symbol
            /\ paper_trades[i].status = "CLOSED"
            /\ paper_trades[i].exit_ltp = 1060000
            /\ paper_trades[i].points = 2611
            /\ PaperItem.allRows[j].selected_factor = "mini"
            /\ PaperItem.allRows[j].bu5 > paper_trades[i].exit_ltp
            /\ PaperItem.allRows[j].bu1 > paper_trades[i].bu5

(***************************************************************************)
(* Properties of the signal state (SpecEngine).                            *)
(***************************************************************************)
\* the volume the loop reads from a row
VolumeOf(r) == IF toNum(r.volume) = NULL THEN 0 ELSE Max(0, toNum(r.volume))

\* the motion fields of the derived row r follow from the stored entry `used`
MotionFrom(r, used) ==
  /\ r.volume_delta = (IF used.prevVolume = NULL THEN 0
                        ELSE Max(0, VolumeOf(r) - used.prevVolume))
  /\ r.volume_accel = (IF used.prevVolDelta > 0 THEN Rat(r.volume_delta, used.prevVolDelta)
                        ELSE IF r.volume_delta > 0 THEN Rat(1, 1) ELSE Rat(0, 1))
  /\ r.ltp_jump = (IF used.prevLtp = NULL THEN 0 ELSE Abs(r.ltp - used.prevLtp))
  /\ r.spike_flag = (r.points > 0
                      /\ r.ltp_jump * MAX_SPIKE_POINTS_MULT.d
                           > r.points * MAX_SPIKE_POINTS_MULT.n)

\* the entry of (key, symbol) was stored with the values of the derived row r
StoredFrom(entry, r) ==
  /\ entry.prevLtp = r.ltp
  /\ entry.prevVolume = VolumeOf(r)
  /\ entry.prevVolDelta = r.volume_delta

\* C32: when a config is recomputed, the volume_delta, volume_accel, ltp_jump
\* and spike_flag of every derived row follow from the prevLtp, prevVolume and
\* prevVolDelta the config holds for the symbol before the run; after the run
\* the entry holds the row's ltp, volume and volume_delta; with no entry
\* before the run volume_delta = 0, volume_accel = 0 and spike_flag is false.
\* An entry changes only in a recomputation of its config, and the entries
\* held for a cached config are those its rows were stored from: the entry a
\* run reads is the one the config's previous run stored for the symbol.
C32_MotionFromStoredState ==
  /\ [][\A key \in DashConfigs :
          Recomputed(key) =>
            \A i \in 1..Len(derivedCache'.byConfig[key].allRows) :
              LET r == derivedCache'.byConfig[key].allRows[i]
              IN  /\ MotionFrom(r, UsedPrev(key, r.symbol))
                  /\ StoredFrom(signalState'[key][r.symbol], r)
                  /\ (key \notin DOMAIN signalState
                        \/ r.symbol \notin DOMAIN signalState[key])
                       => /\ r.volume_delta = 0
                          /\ r.volume_accel = Rat(0, 1)
                          /\ ~r.spike_flag]_vars
  /\ [][\A key \in DOMAIN signalState :
          \A symbol \in DOMAIN signalState[key] :
            (key \notin DOMAIN signalState'
               \/ symbol \notin DOMAIN signalState'[key]
               \/ signalState'[key][symbol] # signalState[key][symbol])
              => Recomputed(key)]_vars
  /\ [](\A key \in DOMAIN derivedCache.byConfig :
          \A i \in 1..Len(derivedCache.byConfig[key].allRows) :
            LET r == derivedCache.byConfig[key].allRows[i]
            IN  /\ r.symbol \in DOMAIN signalState[key]
                /\ StoredFrom(signalState[key][r.symbol], r))

\* a row whose jump from the stored ltp is a spike, with the volume delta and
\* the acceleration measured from the stored volume and volume delta
C32_Witness ==
  /\ PaperKey \in DOMAIN derivedCache.byConfig
  /\ \E i \in 1..Len(derivedCache.byConfig[PaperKey].allRows) :
       LET r == derivedCache.byConfig[PaperKey].allRows[i]
       IN  /\ r.spike_flag
           /\ r.ltp_jump = 60000
           /\ r.volume_delta = 10
           /\ r.volume_accel = Rat(1, 1)
           /\ \E p \in RowsOf(priorData.rows, r.symbol) : p.ltp = 1060000 /\ r.ltp = 1000000

(***************************************************************************)
(* Properties of the BE5 retest (SpecRetest).                              *)
(***************************************************************************)
\* the stored entry holds a touch of BE5 that is within the lookback at ts
TouchWithin(entry, ts) ==
  /\ entry.be5TouchTs # 0
  /\ entry.be5MinLtp # NULL
  /\ entry.be5TouchTs <= ts
  /\ ts - entry.be5TouchTs <= JACKPOT_TOUCH_LOOKBACK_SEC

\* the touch fields of an entry
TouchFields(entry) == << entry.be5TouchTs, entry.be5MinLtp, entry.be5TouchVolume >>

\* the derived row r and the entry stored with it, from the entry `used`
RetestStep(r, used, stored) ==
  /\ r.jackpot_be5_reversal => (r.ltp > r.be5 /\ TouchWithin(used, r.updated_at))
  /\ r.ltp <= r.be5 =>
       /\ r.be5_touched_recent
       /\ stored.be5TouchTs = r.updated_at
       /\ stored.be5MinLtp = (IF used.be5MinLtp = NULL THEN r.ltp
                                ELSE Min(used.be5MinLtp, r.ltp))
  /\ (r.ltp > r.be5 /\ TouchWithin(used, r.updated_at)) =>
       /\ r.be5_touched_recent
       /\ TouchFields(stored) = TouchFields(used)
  /\ (r.ltp > r.be5 /\ ~TouchWithin(used, r.updated_at)) =>
       /\ ~r.be5_touched_recent
       /\ stored.be5TouchTs = 0
       /\ stored.be5MinLtp = NULL

\* C33: when a config is recomputed, a row is flagged jackpot_be5_reversal
\* only if the entry the config holds for the symbol records a touch whose
\* row timestamp is within JACKPOT_TOUCH_LOOKBACK_SEC of the row's; an entry
\* records a touch only from a row with ltp <= be5, at that row's timestamp,
\* and keeps it while later rows are within the lookback; a row without a
\* touch that comes after the lookback (or with no touch recorded) has
\* be5_touched_recent false and leaves be5TouchTs and be5MinLtp cleared.
C33_Be5Retest ==
  [][\A key \in DashConfigs :
       Recomputed(key) =>
         \A i \in 1..Len(derivedCache'.byConfig[key].allRows) :
           LET r == derivedCache'.byConfig[key].allRows[i]
           IN  RetestStep(r, UsedPrev(key, r.symbol), signalState'[key][r.symbol])]_vars

\* a row flagged jackpot_be5_reversal 1000 s after the touch
C33_Witness ==
  /\ PaperKey \in DOMAIN derivedCache.byConfig
  /\ \E i \in 1..Len(derivedCache.byConfig[PaperKey].allRows) :
       LET r == derivedCache.byConfig[PaperKey].allRows[i]
       IN  /\ r.jackpot_be5_reversal
           /\ r.ltp = 1005222
           /\ r.be5_touch_age_sec = 1000
           /\ r.be5_low_ltp = 986945

====
